---- MODULE Spec2Model ----
(***************************************************************************)
(* A model of zfssnap 3.7.1 (src/src/zfssnap.py): the property cache of a  *)
(* Host, retention (Filesystem.enforce_retention), direct replication,     *)
(* and replication through segment files described by a MetadataFile.      *)
(*                                                                         *)
(* Python values are pairs <<kind, text>>; a dataset name is a record      *)
(* [fs, snap] where snap is <<>> for a filesystem and the six numbers of   *)
(* the zfssnap_%Y%m%dT%H%M%SZ stamp for a snapshot; a datetime is a number *)
(* of seconds since 1970-01-01T00:00:00Z.                                  *)
(***************************************************************************)
EXTENDS Integers, Sequences, FiniteSets, TLC

\* ------------------------------------------------------------------ bounds
MaxRuns == 2        \* policy runs in one behaviour
MaxKeep == 1        \* largest value of one keep interval
MaxSegments == 2    \* segment files one send can produce
MaxSnaps == 2       \* snapshots of a filesystem handed to one retention call
MaxNonZero == 2     \* keep intervals of one policy that are not zero
MaxHourSnaps == 5   \* snapshots of a filesystem handed to hourly retention
MaxPlainSnaps == 3  \* snapshots of a filesystem handed to plain retention
MaxPlainKeep == 2   \* largest value of one keep interval of a plain policy
MaxTicks == 2       \* seconds the clock moves on while two runs share a lock
MaxChain == 3       \* policy runs in one behaviour of a chain of units
MaxHostOps == 5     \* calls on a host in one run

\* ---------------------------------------------------------- Python values
None == <<"none", "">>
Str(s) == <<"str", s>>
VERSION == "3.7.1"
ZFSSNAP_LABEL == "zfssnap:label"
ZFSSNAP_REPL_STATUS == "zfssnap:repl_status"
ZFSSNAP_VERSION == "zfssnap:version"

\* the strings of the model that int() parses
IntLiterals == {"0", "42"}

autotype(value) == IF value \in IntLiterals THEN <<"int", value>> ELSE <<"str", value>>

\* bool(value): None, '', 0 and [] are false
Truthy(v) ==
    IF v[1] = "list" THEN v[2] # <<>>
    ELSE v[1] # "none" /\ v[2] # "" /\ ~(v[1] = "int" /\ v[2] = "0")

\* x is evaluated once and handed to F as a value
Let(x, F(_)) == CHOOSE v \in {F(y) : y \in {x}} : TRUE

EmptyDict == [k \in {} |-> None]
DictGet(d, k) == IF k \in DOMAIN d THEN d[k] ELSE None
DictSet(d, k, v) == [x \in DOMAIN d \cup {k} |-> IF x = k THEN v ELSE d[x]]
DictPop(d, k) == [x \in DOMAIN d \ {k} |-> d[x]]
\* defaultdict(dict)[k]
DictGet2(d, k) == IF k \in DOMAIN d THEN d[k] ELSE EmptyDict
\* a dict of strings as a dict of str values
Str2(d) == [k \in DOMAIN d |-> Str(d[k])]

\* ---------------------------------------------------------------- calendar
\* days since 1970-01-01 of a proleptic Gregorian date
DaysFromCivil(y, m, d) ==
    LET yy == IF m <= 2 THEN y - 1 ELSE y
        era == yy \div 400
        yoe == yy - era * 400
        mp == IF m > 2 THEN m - 3 ELSE m + 9
        doy == (153 * mp + 2) \div 5 + d - 1
        doe == yoe * 365 + yoe \div 4 - yoe \div 100 + doy
    IN era * 146097 + doe - 719468

CivilFromDays(z) ==
    LET zz == z + 719468
        era == zz \div 146097
        doe == zz - era * 146097
        yoe == (doe - doe \div 1460 + doe \div 36524 - doe \div 146096) \div 365
        doy == doe - (365 * yoe + yoe \div 4 - yoe \div 100)
        mp == (5 * doy + 2) \div 153
        d == doy - (153 * mp + 2) \div 5 + 1
        m == IF mp < 10 THEN mp + 3 ELSE mp - 9
        y == yoe + era * 400 + (IF m <= 2 THEN 1 ELSE 0)
    IN <<y, m, d>>

\* datetime.strptime(name, 'zfssnap_%Y%m%dT%H%M%S%z'): stamp -> datetime
strptime(st) == DaysFromCivil(st[1], st[2], st[3]) * 86400 + st[4] * 3600 + st[5] * 60 + st[6]

\* ts.strftime('%Y%m%dT%H%M%SZ'): datetime -> stamp
strftime(dt) ==
    LET c == CivilFromDays(dt \div 86400)
        s == dt % 86400
    IN <<c[1], c[2], c[3], s \div 3600, (s % 3600) \div 60, s % 60>>

\* datetime.replace(...) with the named fields reset
replace_hour(dt) == dt - (dt % 3600)
replace_day(dt) == dt - (dt % 86400)
replace_month(dt) == LET c == CivilFromDays(dt \div 86400) IN DaysFromCivil(c[1], c[2], 1) * 86400
replace_year(dt) == LET c == CivilFromDays(dt \div 86400) IN DaysFromCivil(c[1], 1, 1) * 86400

\* dt - relativedelta(months=n), for a dt at day 1, 00:00:00
minus_months(dt, n) ==
    LET c == CivilFromDays(dt \div 86400)
        k == c[1] * 12 + (c[2] - 1) - n
    IN DaysFromCivil(k \div 12, (k % 12) + 1, c[3]) * 86400 + (dt % 86400)

\* ------------------------------------------------------------ dataset names
\* the filesystems of the model, in the order zfs lists them
AllFs == <<"tank", "tank/child", "backup">>
FsIndex(fs) == CHOOSE i \in 1..Len(AllFs) : AllFs[i] = fs
FsName(fs) == [fs |-> fs, snap |-> <<>>]
SnapName(fs, st) == [fs |-> fs, snap |-> st]
IsSnapName(n) == n.snap # <<>>
\* zfs destroy -r / snapshot -r reach the dataset and its descendants
Descendants(fs) == IF fs = "tank" THEN {"tank", "tank/child"} ELSE {fs}

\* Snapshot.datetime (zfssnap.py 397-402)
datetime(o) == strptime(o.name.snap)

NameKey(n) == IF IsSnapName(n) THEN 1 + strptime(n.snap) ELSE 0
NameLess(a, b) ==
    \/ FsIndex(a.fs) < FsIndex(b.fs)
    \/ FsIndex(a.fs) = FsIndex(b.fs) /\ NameKey(a) < NameKey(b)

RECURSIVE ListNames(_)
\* the datasets of a set in the order of `zfs get all`
ListNames(S) ==
    IF S = {} THEN <<>>
    ELSE Let(CHOOSE a \in S : \A b \in S \ {a} : NameLess(a, b), LAMBDA first :
             <<first>> \o ListNames(S \ {first}))

\* --------------------------------------------------------------------- Host
\* Host.__init__ (zfssnap.py 667-676) on a machine whose datasets are zfs
NewHost(zfs) ==
    [zfs |-> zfs, props |-> [n \in {} |-> EmptyDict], snaps |-> <<>>, fss |-> <<>>,
     rp |-> TRUE, rs |-> TRUE, rf |-> TRUE, nid |-> 0, exc |-> ""]

Raise(h, e) == IF h.exc = "" THEN [h EXCEPT !.exc = e] ELSE h

cache_refresh(h) == [h EXCEPT !.rp = TRUE, !.rs = TRUE, !.rf = TRUE]

\* one `zfs get all` replaces the cache; every value goes through autotype
_cache_refresh_properties(h) ==
    [h EXCEPT !.props = [n \in DOMAIN h.zfs |->
                            [k \in DOMAIN h.zfs[n] |-> autotype(h.zfs[n][k])]],
              !.rp = FALSE]

get_properties_cached(h, refresh) ==
    IF refresh THEN _cache_refresh_properties(cache_refresh(h))
    ELSE IF h.rp THEN _cache_refresh_properties(h)
    ELSE h

cache_add_property(h, dataset, name, value) ==
    [h EXCEPT !.props = DictSet(h.props, dataset,
                                DictSet(DictGet2(h.props, dataset), name, value))]

cache_remove_property(h, dataset, name) ==
    [h EXCEPT !.props = DictSet(h.props, dataset, DictPop(DictGet2(h.props, dataset), name))]

\* Host._cache_refresh_snapshots: a new Snapshot object for every cached
\* dataset of type snapshot; properties['type'] raises KeyError on an entry
\* that has no type
_cache_refresh_snapshots(h) ==
    Let(get_properties_cached(h, FALSE), LAMBDA h1 :
    Let(ListNames({n \in DOMAIN h1.props : IsSnapName(n)}), LAMBDA order :
        IF \E n \in DOMAIN h1.props : "type" \notin DOMAIN h1.props[n]
        THEN Raise(h1, "KeyError")
        ELSE [h1 EXCEPT
                !.snaps = [i \in 1..Len(order) |-> [name |-> order[i], id |-> h1.nid + i]],
                !.nid = h1.nid + Len(order),
                !.rs = FALSE]))

_cache_refresh_filesystems(h) ==
    Let(get_properties_cached(h, FALSE), LAMBDA h1 :
        IF \E n \in DOMAIN h1.props : "type" \notin DOMAIN h1.props[n]
        THEN Raise(h1, "KeyError")
        ELSE [h1 EXCEPT !.fss = ListNames({n \in DOMAIN h1.props : ~IsSnapName(n)}),
                        !.rf = FALSE])

\* a cache that is read as it stands unless a refresh is asked for
cache_get_snapshots_as_is(h, refresh) ==
    IF refresh THEN _cache_refresh_snapshots(cache_refresh(h)) ELSE h

\* Host.cache_get_snapshots up to its first yield
cache_get_snapshots(h, refresh) ==
    IF refresh THEN _cache_refresh_snapshots(cache_refresh(h))
    ELSE IF h.rs THEN _cache_refresh_snapshots(h)
    ELSE h

cache_get_filesystems(h, refresh) ==
    IF refresh THEN _cache_refresh_filesystems(cache_refresh(h))
    ELSE IF h.rf THEN _cache_refresh_filesystems(h)
    ELSE h

cache_add_snapshot(h, o) == [h EXCEPT !.snaps = Append(h.snaps, o)]

SeqRemove(q, x) ==
    Let(CHOOSE j \in 1..Len(q) : q[j] = x /\ \A k \in 1..(j - 1) : q[k] # x, LAMBDA i :
        SubSeq(q, 1, i - 1) \o SubSeq(q, i + 1, Len(q)))
Range(q) == {q[i] : i \in 1..Len(q)}

\* list.remove raises ValueError, dict.pop without default raises KeyError
cache_remove_snapshot(h, o) ==
    IF o \notin Range(h.snaps) THEN Raise(h, "ValueError")
    ELSE IF o.name \notin DOMAIN h.props
         THEN Raise([h EXCEPT !.snaps = SeqRemove(h.snaps, o)], "KeyError")
    ELSE [h EXCEPT !.snaps = SeqRemove(h.snaps, o), !.props = DictPop(h.props, o.name)]

\* Host.get_filesystem: whether the host lists a filesystem of that name
get_filesystem(h, fs) == FsName(fs) \in Range(h.fss)

\* ------------------------------------------------------------------ Dataset
\* Dataset.get_properties: the defaultdict makes an entry for a name it lacks
get_properties(h, name, refresh) ==
    Let(get_properties_cached(h, refresh), LAMBDA h1 :
        IF name \in DOMAIN h1.props THEN h1
        ELSE [h1 EXCEPT !.props = DictSet(h1.props, name, EmptyDict)])

\* Dataset.get_property: a value that is not truthy is looked up again after
\* a refresh of the whole cache
get_property(h, name, key) ==
    IF h.exc # "" THEN [h |-> h, v |-> None]
    ELSE Let(get_properties(h, name, FALSE), LAMBDA h1 :
         Let(DictGet(h1.props[name], key), LAMBDA v1 :
             IF Truthy(v1) THEN [h |-> h1, v |-> v1]
             ELSE Let(get_properties(h1, name, TRUE), LAMBDA h2 :
                      [h |-> h2, v |-> DictGet(h2.props[name], key)])))

\* Dataset.unset_property: zfs inherit, then the cached value is dropped
unset_property(h, name, key, ok) ==
    IF h.exc # "" THEN h
    ELSE IF ~ok \/ name \notin DOMAIN h.zfs THEN Raise(h, "CalledProcessError")
    ELSE cache_remove_property(
            [h EXCEPT !.zfs[name] = IF key = "readonly" THEN DictSet(@, key, "off")
                                    ELSE DictPop(@, key)],
            name, key)

\* Dataset.set_property: zfs set, then the cached value is replaced
set_property(h, name, key, value, ok) ==
    IF h.exc # "" THEN h
    ELSE IF value = None THEN unset_property(h, name, key, ok)
    ELSE IF ~ok \/ name \notin DOMAIN h.zfs THEN Raise(h, "CalledProcessError")
    ELSE cache_add_property([h EXCEPT !.zfs[name] = DictSet(@, key, value[2])],
                            name, key, value)

NoSnapshot == [name |-> [fs |-> "", snap |-> <<>>], id |-> 0]

\* Snapshot.destroy: zfs destroy [-r] -d, then the object leaves the cache
destroy(h, o, recursive, ok) ==
    IF h.exc # "" THEN h
    ELSE IF ~ok \/ o.name \notin DOMAIN h.zfs THEN Raise(h, "CalledProcessError")
    ELSE Let({n \in DOMAIN h.zfs :
                /\ n.snap = o.name.snap
                /\ n.fs \in (IF recursive THEN Descendants(o.name.fs) ELSE {o.name.fs})},
             LAMBDA gone :
                cache_remove_snapshot(
                    [h EXCEPT !.zfs = [n \in DOMAIN h.zfs \ gone |-> h.zfs[n]]], o))

\* --------------------------------------------------------------- Filesystem
RECURSIVE get_snapshots_from(_, _, _, _, _)
\* the loop of Filesystem.get_snapshots over the list it was handed
get_snapshots_from(r, list, i, fs, label) ==
    IF i > Len(list) \/ r.h.exc # "" THEN r
    ELSE IF list[i].name.fs # fs THEN get_snapshots_from(r, list, i + 1, fs, label)
    ELSE IF ~Truthy(label) THEN
        Let([r EXCEPT !.out = Append(@, list[i])], LAMBDA r2 :
            get_snapshots_from(r2, list, i + 1, fs, label))
    ELSE Let(get_property(r.h, list[i].name, ZFSSNAP_LABEL), LAMBDA g :
         Let(IF g.v # label THEN [r EXCEPT !.h = g.h]
             ELSE [h |-> g.h, out |-> Append(r.out, list[i])], LAMBDA r2 :
             get_snapshots_from(r2, list, i + 1, fs, label)))

\* get_snapshots that yields the snapshots of every label
get_snapshots_any_label(h, fs, label, refresh) ==
    IF h.exc # "" THEN [h |-> h, out |-> <<>>]
    ELSE Let(cache_get_snapshots(h, refresh), LAMBDA h1 :
             get_snapshots_from([h |-> h1, out |-> <<>>], h1.snaps, 1, fs, None))

\* Filesystem.get_snapshots, consumed to its end
get_snapshots(h, fs, label, refresh) ==
    IF h.exc # "" THEN [h |-> h, out |-> <<>>]
    ELSE Let(cache_get_snapshots(h, refresh), LAMBDA h1 :
             get_snapshots_from([h |-> h1, out |-> <<>>], h1.snaps, 1, fs, label))

RECURSIVE sorted_reverse(_)
\* sorted(snapshots, key=attrgetter('datetime'), reverse=True); the sort is
\* stable, so equal keys keep their order
sorted_reverse(list) ==
    IF list = <<>> THEN <<>>
    ELSE Let(CHOOSE j \in 1..Len(list) :
                /\ \A k \in 1..Len(list) : datetime(list[k]) <= datetime(list[j])
                /\ \A k \in 1..(j - 1) : datetime(list[k]) < datetime(list[j]), LAMBDA i :
         Let(SubSeq(list, 1, i - 1) \o SubSeq(list, i + 1, Len(list)), LAMBDA rest :
             <<list[i]>> \o sorted_reverse(rest)))

RECURSIVE first_with_status(_, _, _, _)
first_with_status(h, list, i, status) ==
    IF i > Len(list) \/ h.exc # "" THEN [h |-> h, o |-> NoSnapshot]
    ELSE Let(get_property(h, list[i].name, ZFSSNAP_REPL_STATUS), LAMBDA g :
             IF g.v = status THEN [h |-> g.h, o |-> list[i]]
             ELSE first_with_status(g.h, list, i + 1, status))

\* Filesystem.get_latest_repl_snapshot
get_latest_repl_snapshot(h, fs, label, status, refresh) ==
    Let(get_snapshots(h, fs, label, refresh), LAMBDA r :
    Let(sorted_reverse(r.out), LAMBDA snapshots :
        first_with_status(r.h, snapshots, 1, status)))

\* Filesystem.get_snapshot: the first cached snapshot of that name
get_snapshot(h, fs, name, refresh) ==
    Let(get_snapshots(h, fs, None, refresh), LAMBDA r :
    Let({i \in 1..Len(r.out) : r.out[i].name.snap = name}, LAMBDA hit :
        [h |-> r.h,
         o |-> IF hit = {} THEN NoSnapshot
               ELSE r.out[CHOOSE i \in hit : \A j \in hit : i <= j]]))

\* a base that is the latest 'success' snapshot whatever name is given
get_base_snapshot_unnamed(h, fs, label, base_snapshot) ==
    get_latest_repl_snapshot(h, fs, label, Str("success"), FALSE)

\* Filesystem.get_base_snapshot; base_snapshot is <<>> when none is named
get_base_snapshot(h, fs, label, base_snapshot) ==
    IF base_snapshot # <<>>
    THEN Let(get_snapshot(h, fs, base_snapshot, FALSE), LAMBDA g :
             IF g.o = NoSnapshot
             THEN [h |-> Raise(g.h, "ReplicationException"), o |-> NoSnapshot]
             ELSE g)
    ELSE get_latest_repl_snapshot(h, fs, label, Str("success"), FALSE)

\* Filesystem.snapshot with ts = the clock; '-' is the one label refused
snapshot(h, fs, label, recursive, ts, ok) ==
    Let(strftime(ts), LAMBDA st :
    Let({SnapName(f, st) : f \in {d \in (IF recursive THEN Descendants(fs) ELSE {fs}) :
                                      FsName(d) \in DOMAIN h.zfs}}, LAMBDA made :
    Let([name |-> SnapName(fs, st), id |-> h.nid + 1], LAMBDA o :
        IF h.exc # "" THEN [h |-> h, o |-> NoSnapshot]
        ELSE IF label = "-" THEN [h |-> Raise(h, "SnapshotException"), o |-> NoSnapshot]
        ELSE IF ~ok \/ FsName(fs) \notin DOMAIN h.zfs \/ made \cap DOMAIN h.zfs # {}
             THEN [h |-> Raise(h, "CalledProcessError"), o |-> NoSnapshot]
        ELSE [h |-> [h EXCEPT
                       !.zfs = [n \in DOMAIN h.zfs \cup made |->
                                   IF n \in made
                                   THEN (ZFSSNAP_LABEL :> label) @@ (ZFSSNAP_VERSION :> VERSION)
                                            @@ ("type" :> "snapshot")
                                   ELSE h.zfs[n]],
                       !.props = DictSet(h.props, o.name,
                                    (ZFSSNAP_LABEL :> Str(label)) @@ (ZFSSNAP_VERSION :> Str(VERSION))
                                        @@ ("type" :> Str("snapshot")) @@ DictGet2(h.props, o.name)),
                       !.snaps = Append(h.snaps, o),
                       !.nid = h.nid + 1],
              o |-> o])))

\* ---------------------------------------------------------------- retention
\* current - delta and dt + delta, delta a timedelta or a relativedelta
minus_delta(dt, kind) ==
    CASE kind = "hourly" -> dt - 3600
      [] kind = "daily" -> dt - 86400
      [] kind = "weekly" -> dt - 604800
      [] kind = "monthly" -> minus_months(dt, 1)
      [] kind = "yearly" -> minus_months(dt, 12)

plus_delta(dt, kind) ==
    CASE kind = "hourly" -> dt + 3600
      [] kind = "daily" -> dt + 86400
      [] kind = "weekly" -> dt + 604800
      [] kind = "monthly" -> minus_months(dt, -1)
      [] kind = "yearly" -> minus_months(dt, -12)

\* start - (delta * keep)
interval_end(start, kind, keep) ==
    CASE kind = "hourly" -> start - 3600 * keep
      [] kind = "daily" -> start - 86400 * keep
      [] kind = "weekly" -> start - 604800 * keep
      [] kind = "monthly" -> minus_months(start, keep)
      [] kind = "yearly" -> minus_months(start, 12 * keep)

\* slots that start one interval before the present one, so that only
\* completed slots are looked at
interval_start_completed(now, kind) ==
    CASE kind = "hourly" -> replace_hour(now) - 3600
      [] kind = "daily" -> replace_day(now) - 86400
      [] kind = "weekly" -> replace_day(now) - 604800
      [] kind = "monthly" -> minus_months(replace_month(now), 1)
      [] kind = "yearly" -> minus_months(replace_year(now), 12)

\* datetime.now(timezone.utc).replace(...) of each _get_<kind>_snapshots
interval_start(now, kind) ==
    CASE kind = "hourly" -> replace_hour(now)
      [] kind = "daily" -> replace_day(now)
      [] kind = "weekly" -> replace_day(now)
      [] kind = "monthly" -> replace_month(now)
      [] kind = "yearly" -> replace_year(now)

RECURSIVE _get_delta_datetimes(_, _, _)
_get_delta_datetimes(current, end, kind) ==
    IF current > end
    THEN <<current>> \o _get_delta_datetimes(minus_delta(current, kind), end, kind)
    ELSE <<>>

\* Filesystem._get_interval_snapshots: per slot the newest snapshot in it
_get_interval_snapshots(snapshots, start, end, kind) ==
    Let(sorted_reverse(snapshots), LAMBDA _snapshots :
    Let(_get_delta_datetimes(start, end, kind), LAMBDA slots :
        {_snapshots[j] : j \in {k \in 1..Len(_snapshots) :
            \E d \in 1..Len(slots) :
                /\ slots[d] <= datetime(_snapshots[k])
                /\ datetime(_snapshots[k]) < plus_delta(slots[d], kind)
                /\ \A m \in 1..(k - 1) :
                      ~(slots[d] <= datetime(_snapshots[m])
                        /\ datetime(_snapshots[m]) < plus_delta(slots[d], kind))}}))

\* Filesystem._get_hourly_snapshots ... _get_yearly_snapshots
_get_kind_snapshots(snapshots, keep, kind, now) ==
    Let(interval_start(now, kind), LAMBDA start :
    Let(interval_end(start, kind, keep), LAMBDA end :
        _get_interval_snapshots(snapshots, start, end, kind)))

\* Filesystem._get_latest_snapshots
_get_latest_snapshots(snapshots, keep) ==
    Let(sorted_reverse(snapshots), LAMBDA _snapshots :
        {_snapshots[j] : j \in {k \in 1..Len(_snapshots) : ~((k - 1) >= keep)}})

Intervals == {"hourly", "daily", "weekly", "monthly", "yearly"}

RECURSIVE retention_loop_keeps_unreplicated(_, _, _, _, _, _, _, _)
\* the destroy loop without the discard of snapshots that are not 'success'
retention_loop_keeps_unreplicated(h, list, i, keep_snapshots, replication, recursive, fail, n) ==
    IF i > Len(list) \/ h.exc # "" THEN h
    ELSE IF list[i] \notin keep_snapshots
         THEN Let(destroy(h, list[i], recursive, n + 1 # fail), LAMBDA h2 :
                  retention_loop_keeps_unreplicated(h2, list, i + 1, keep_snapshots,
                                                    replication, recursive, fail, n + 1))
         ELSE retention_loop_keeps_unreplicated(h, list, i + 1, keep_snapshots,
                                                replication, recursive, fail, n)

RECURSIVE retention_loop(_, _, _, _, _, _, _, _)
\* the destroy loop of enforce_retention (zfssnap.py 654-664); the destroy
\* command numbered fail is the one that fails, 0 for none
retention_loop(h, list, i, keep_snapshots, replication, recursive, fail, n) ==
    IF i > Len(list) \/ h.exc # "" THEN h
    ELSE Let(IF replication THEN get_property(h, list[i].name, ZFSSNAP_REPL_STATUS)
             ELSE [h |-> h, v |-> None], LAMBDA g :
         Let(IF replication /\ g.v # Str("success")
             THEN keep_snapshots \ {list[i]} ELSE keep_snapshots, LAMBDA kept :
             IF list[i] \notin kept
             THEN Let(destroy(g.h, list[i], recursive, n + 1 # fail), LAMBDA h2 :
                      retention_loop(h2, list, i + 1, kept, replication, recursive,
                                     fail, n + 1))
             ELSE retention_loop(g.h, list, i + 1, kept, replication, recursive, fail, n)))

\* a keep set that is built from the keep policy even on a reset
keep_set_on_reset(snapshots, pin, keep, reset, replication, now) ==
    (IF keep.latest > 0 THEN _get_latest_snapshots(snapshots, keep.latest) ELSE {})
    \cup UNION {IF keep[kind] > 0 THEN _get_kind_snapshots(snapshots, keep[kind], kind, now)
                ELSE {} : kind \in Intervals}

\* the keep set of enforce_retention (zfssnap.py 620-651)
keep_set(snapshots, pin, keep, reset, replication, now) ==
    IF reset THEN {}
    ELSE (IF replication /\ pin # NoSnapshot THEN {pin} ELSE {})
         \cup (IF keep.latest > 0 THEN _get_latest_snapshots(snapshots, keep.latest) ELSE {})
         \cup UNION {IF keep[kind] > 0 THEN _get_kind_snapshots(snapshots, keep[kind], kind, now)
                     ELSE {} : kind \in Intervals}

\* Filesystem.enforce_retention
enforce_retention(h, fs, keep, label, recursive, reset, replication, now, fail) ==
    Let(get_snapshots(h, fs, label, FALSE), LAMBDA r :
    Let(IF ~reset /\ replication
        THEN get_latest_repl_snapshot(r.h, fs, label, Str("success"), FALSE)
        ELSE [h |-> r.h, o |-> NoSnapshot], LAMBDA p :
    Let(keep_set(r.out, p.o, keep, reset, replication, now), LAMBDA keep_snapshots :
    Let(sorted_reverse(r.out), LAMBDA list :
        retention_loop(p.h, list, 1, keep_snapshots, replication, recursive, fail, 0)))))

\* -------------------------------------------------------------------- state
VARIABLES
    src,    \* the source machine: its datasets (zfs) and the Host cache of the run
    dst,    \* the destination machine, likewise
    dir,    \* the transfer directory: metadata files and segment files
    now,    \* the wall clock, seconds since 1970-01-01T00:00:00Z
    pc,     \* where the current policy run stands
    run,    \* the locals of the current policy run
    hist    \* what has happened so far, for the properties

vars == <<src, dst, dir, now, pc, run, hist>>

Label == "daily"
KeepKeys == {"latest"} \cup Intervals

\* the keep policies of the model: every value 0..MaxKeep, at most
\* MaxNonZero of the six not zero
KeepPolicies ==
    {k \in [KeepKeys -> 0..MaxKeep] : Cardinality({x \in KeepKeys : k[x] > 0}) <= MaxNonZero}

\* nothing has happened: no run, no snapshot marked by a source run, no
\* pipeline run (its exit statuses, upstream and downstream), no unit
\* handled, no run that came to its end
NoHist == [runs |-> 0, marked |-> FALSE, pipe |-> <<0, 0>>, handled |-> <<>>, ended |-> <<>>]
NoDir == [meta |-> [s \in {} |-> EmptyDict], segs |-> {}, bad |-> {}]
FsProps(ro) == ("type" :> "filesystem") @@ ("readonly" :> ro)


\* ----------------------------------------------- retention on its own
\* the instants and snapshot stamps retention is exercised on
RetNow == {strptime(<<2017, 3, 1, 0, 30, 0>>), strptime(<<2017, 3, 8, 1, 0, 0>>)}
RetStamps == {<<2016, 12, 31, 23, 59, 59>>, <<2017, 2, 28, 23, 10, 0>>,
              <<2017, 3, 1, 0, 0, 0>>, <<2017, 3, 1, 0, 20, 0>>}
\* what a snapshot can carry: a label of this policy, of another, or none
\* (a snapshot made by zfssnap 1.x or by hand); a status or none
RetProps ==
    {("type" :> "snapshot") @@ (ZFSSNAP_LABEL :> Label) @@ (ZFSSNAP_REPL_STATUS :> "success"),
     ("type" :> "snapshot") @@ (ZFSSNAP_LABEL :> Label) @@ (ZFSSNAP_REPL_STATUS :> "failed"),
     ("type" :> "snapshot") @@ (ZFSSNAP_LABEL :> Label),
     ("type" :> "snapshot") @@ (ZFSSNAP_LABEL :> "other") @@ (ZFSSNAP_REPL_STATUS :> "success"),
     ("type" :> "snapshot")}

RetZfs ==
    UNION {[{FsName("tank"), FsName("tank/child")} \cup {SnapName("tank", st) : st \in S}
               -> RetProps \cup {FsProps("off")}] : S \in {T \in SUBSET RetStamps : Cardinality(T) <= MaxSnaps}}

RetInit ==
    /\ \E z \in RetZfs :
          /\ \A n \in DOMAIN z : (z[n]["type"] = "snapshot") = IsSnapName(n)
          /\ src = NewHost(z)
    /\ dst = NewHost([n \in {} |-> EmptyDict])
    /\ dir = NoDir
    /\ now \in RetNow
    /\ pc = "retention"
    /\ run = [op |-> "none"]
    /\ hist = [runs |-> 0]

\* one policy run that is retention alone: a Host is made, the filesystem is
\* looked up (get_filesystem / get_filesystems) and enforce_retention runs,
\* with a keep policy of K, reset of resets, in a role of roles, recursive
\* of recs
RetainWith(K, resets, roles, recs) ==
    /\ pc = "retention"
    /\ \E keep \in K, reset \in resets, replication \in roles, recursive \in recs :
          \E h0 \in {cache_get_filesystems(NewHost(src.zfs), FALSE)} :
             /\ src' = enforce_retention(h0, "tank", keep, Str(Label), recursive, reset,
                                         replication, now, 0)
             /\ run' = [op |-> "enforce_retention", keep |-> keep, reset |-> reset,
                        replication |-> replication, recursive |-> recursive,
                        before |-> src.zfs]
    /\ pc' = "done"
    /\ hist' = [hist EXCEPT !.runs = @ + 1]
    /\ UNCHANGED <<dst, dir, now>>

Retain == RetainWith(KeepPolicies, BOOLEAN, BOOLEAN, {TRUE})

RetNext == Retain
SpecRet == RetInit /\ [][RetNext]_vars

\* --------------------------------------- retention of one filesystem alone
\* the descendant carries snapshots too, one of them of a name the
\* filesystem has as well, as `zfs snapshot -r` leaves them
ExactInit ==
    /\ \E z \in RetZfs :
          /\ \A n \in DOMAIN z : (z[n]["type"] = "snapshot") = IsSnapName(n)
          /\ \E C \in {S \in SUBSET RetStamps : Cardinality(S) <= 1} :
                src = NewHost(z @@ [n \in {SnapName("tank/child", st) : st \in C} |->
                                       ("type" :> "snapshot") @@ (ZFSSNAP_LABEL :> Label)
                                           @@ (ZFSSNAP_REPL_STATUS :> "success")])
    /\ dst = NewHost([n \in {} |-> EmptyDict])
    /\ dir = NoDir
    /\ now \in RetNow
    /\ pc = "retention"
    /\ run = [op |-> "none"]
    /\ hist = [runs |-> 0]

RetainExact == RetainWith(KeepPolicies, BOOLEAN, BOOLEAN, {FALSE})

ExactNext == RetainExact
SpecExact == ExactInit /\ [][ExactNext]_vars

\* ------------------------------------------- hourly retention on its own
\* a plain policy that keeps two hourly snapshots, run at half past four
\* and at four o'clock sharp on snapshots of the four hours before
KeepHourly == [k \in KeepKeys |-> IF k = "hourly" THEN 2 ELSE 0]
HourNow == {strptime(<<2017, 3, 1, 4, 30, 0>>), strptime(<<2017, 3, 1, 4, 0, 0>>)}
HourStamps == {<<2017, 3, 1, 1, 0, 0>>, <<2017, 3, 1, 1, 45, 0>>,
               <<2017, 3, 1, 2, 0, 0>>, <<2017, 3, 1, 2, 59, 59>>,
               <<2017, 3, 1, 3, 0, 0>>, <<2017, 3, 1, 3, 20, 0>>,
               <<2017, 3, 1, 4, 0, 0>>, <<2017, 3, 1, 4, 10, 0>>}

HourlyInit ==
    /\ now \in HourNow
    /\ \E S \in SUBSET HourStamps :
          /\ Cardinality(S) <= MaxHourSnaps
          /\ \A st \in S : strptime(st) <= now
          /\ src = NewHost((FsName("tank") :> FsProps("off"))
                           @@ [n \in {SnapName("tank", st) : st \in S} |->
                                  ("type" :> "snapshot") @@ (ZFSSNAP_LABEL :> Label)
                                      @@ (ZFSSNAP_VERSION :> VERSION)])
    /\ dst = NewHost([n \in {} |-> EmptyDict])
    /\ dir = NoDir
    /\ pc = "retention"
    /\ run = [op |-> "none"]
    /\ hist = [runs |-> 0]

RetainHourly == RetainWith({KeepHourly}, {FALSE}, {FALSE}, {TRUE})

HourlyNext == RetainHourly
SpecHourly == HourlyInit /\ [][HourlyNext]_vars

\* ----------------------------------- plain retention over long intervals
\* a plain policy with up to MaxPlainKeep of each kind kept, run on
\* snapshots of the hours, days, weeks, months and years before the clock
PlainKeeps ==
    {k \in [KeepKeys -> 0..MaxPlainKeep] : Cardinality({x \in KeepKeys : k[x] > 0}) <= MaxNonZero}
PlainStamps == {<<2016, 12, 31, 23, 59, 59>>, <<2017, 1, 1, 0, 0, 0>>,
                <<2017, 2, 28, 23, 10, 0>>, <<2017, 3, 1, 0, 0, 0>>,
                <<2017, 3, 1, 0, 20, 0>>, <<2017, 3, 6, 0, 0, 0>>,
                <<2017, 3, 7, 12, 0, 0>>, <<2017, 3, 8, 0, 30, 0>>}

PlainInit ==
    /\ now \in RetNow
    /\ \E S \in SUBSET PlainStamps :
          /\ Cardinality(S) <= MaxPlainSnaps
          /\ \A st \in S : strptime(st) <= now
          /\ src = NewHost((FsName("tank") :> FsProps("off"))
                           @@ [n \in {SnapName("tank", st) : st \in S} |->
                                  ("type" :> "snapshot") @@ (ZFSSNAP_LABEL :> Label)
                                      @@ (ZFSSNAP_VERSION :> VERSION)])
    /\ dst = NewHost([n \in {} |-> EmptyDict])
    /\ dir = NoDir
    /\ pc = "retention"
    /\ run = [op |-> "none"]
    /\ hist = [runs |-> 0]

RetainPlain == RetainWith(PlainKeeps, {FALSE}, {FALSE}, {TRUE})

PlainNext == RetainPlain
SpecPlain == PlainInit /\ [][PlainNext]_vars

\* ------------------------------------------------------------- MetadataFile
\* MetadataFile._get_checksum: md5 of the fields serialised with sorted keys,
\* modelled by the serialised fields themselves
_get_checksum(m) == <<m.depends_on, m.label, m.segments, m.snapshot, m.timestamp, m.version>>

\* _write_metadata_file with a write that fails without an exception
_write_metadata_file_silent(segments, label, snapshot_name, version, timestamp, base, ok) ==
    [exc |-> "", file |-> <<>>]

\* the setters of MetadataFile as _write_metadata_file calls them, then
\* MetadataFile.write; the result is the exception raised ("" for none) and
\* the JSON object written
_write_metadata_file(segments, label, snapshot_name, version, timestamp, base, ok) ==
    LET m == [label |-> label[2], snapshot |-> snapshot_name, version |-> version[2],
              timestamp |-> timestamp,
              depends_on |-> IF base # NoSnapshot THEN base.name.snap ELSE <<>>,
              segments |-> segments]
    IN IF segments = <<>> \/ ~Truthy(label) \/ label[1] # "str"
          \/ ~Truthy(version) \/ version[1] # "str"
       THEN [exc |-> "MetadataFileException", file |-> <<>>]
       ELSE IF ~ok THEN [exc |-> "OSError", file |-> <<>>]
       ELSE [exc |-> "", file |-> <<m @@ [checksum |-> _get_checksum(m)]>>]

\* ------------------------------------------------- the source side of a run
NoRun == [kind |-> "none", base |-> <<>>, base_snapshot |-> NoSnapshot,
          snapshot |-> NoSnapshot, segments |-> <<>>, read_only |-> FALSE,
          exc |-> "", at |-> "none", waited |-> FALSE]

\* a stamp that names no snapshot
MissingStamp == <<2001, 1, 1, 0, 0, 0>>
\* seconds that pass between the previous run and this one's snapshot; 0 is a
\* run that slept while it waited for the lock
Elapsed == {0, 1, 3600}

\* the keep policies of the runs: the snapshots of a behaviour lie within
\* hours of each other, so of the intervals it is hourly that tells them apart
RunKeepPolicies == {k \in KeepPolicies : \A x \in Intervals \ {"hourly"} : k[x] = 0}

\* an exception leaves the policy run: the process ends and its Host objects
\* end with it
Abort(e, s, d) ==
    /\ pc' = "idle"
    /\ run' = [NoRun EXCEPT !.kind = run.kind, !.exc = e, !.at = pc]
    /\ src' = NewHost(s.zfs)
    /\ dst' = NewHost(d.zfs)

\* _run_replicate_policy 1123-1153 / _run_send_to_file_policy 1206-1222:
\* sleep, a Host per side, get_filesystem, the lock
StartRunWith(kinds, elapsed, named, max) ==
    /\ pc = "idle"
    /\ hist.runs < max
    /\ \E kind \in kinds, d \in elapsed, ro \in BOOLEAN,
          base \in {<<>>} \cup (IF named
                                THEN {MissingStamp} \cup {n.snap : n \in {x \in DOMAIN src.zfs : x.fs = "tank"}}
                                ELSE {}) :
          /\ kind = "send_to_file" => ~ro
          /\ now' = now + d
          /\ src' = cache_get_filesystems(NewHost(src.zfs), FALSE)
          /\ dst' = IF kind = "replicate"
                    THEN Let(cache_get_filesystems(NewHost(dst.zfs), FALSE), LAMBDA h :
                             IF get_filesystem(h, "backup") THEN h
                             ELSE cache_add_property(h, FsName("backup"), "type",
                                                     Str("filesystem")))
                    ELSE dst
          /\ run' = [NoRun EXCEPT !.kind = kind, !.base = base, !.read_only = ro]
    /\ pc' = "base"
    /\ hist' = [hist EXCEPT !.runs = @ + 1, !.pipe = <<0, 0>>]
    /\ UNCHANGED dir

\* a run with or without a base named on the command line
StartRun == StartRunWith({"send_to_file", "replicate"}, Elapsed, TRUE, MaxRuns)

\* a run that starts as the one before it has ended
StartRunSoon == StartRunWith({"send_to_file", "replicate"}, {1}, TRUE, MaxRuns)

\* a send_to_file run with no base named, one of a chain
StartSend == StartRunWith({"send_to_file"}, {1}, FALSE, MaxChain - 1)

\* replicate 953 / send_to_file 1062
GetBase ==
    /\ pc = "base"
    /\ \E r \in {get_base_snapshot(src, "tank", Str(Label), run.base)} :
          IF r.h.exc # "" THEN Abort(r.h.exc, r.h, dst)
          ELSE /\ src' = r.h
               /\ run' = [run EXCEPT !.base_snapshot = r.o]
               /\ pc' = "snapshot"
               /\ dst' = dst
    /\ UNCHANGED <<dir, now, hist>>

\* replicate 954 / send_to_file 1063
TakeSnapshot ==
    /\ pc = "snapshot"
    /\ \E ok \in BOOLEAN :
       \E r \in {snapshot(src, "tank", Label, TRUE, now, ok)} :
          IF r.h.exc # "" THEN Abort(r.h.exc, r.h, dst)
          ELSE /\ src' = r.h
               /\ run' = [run EXCEPT !.snapshot = r.o]
               /\ pc' = "transfer"
               /\ dst' = dst
    /\ UNCHANGED <<dir, now, hist>>

\* a pipeline whose exit status is not looked at
_run_replication_cmd_unchecked(up_rc, down_rc) == ""

\* a pipeline that fails when either of its processes does
_run_replication_cmd_either(up_rc, down_rc) ==
    IF up_rc # 0 \/ down_rc # 0 THEN "ReplicationException" ELSE ""

\* _run_replication_cmd(in_cmd, out_cmd), the exit statuses of in_p and out_p
\* being up_rc and down_rc: out_p.returncode is the one that is read
_run_replication_cmd(up_rc, down_rc) == IF down_rc # 0 THEN "ReplicationException" ELSE ""

\* the names split announces, as _get_segment_name reads them
SegmentNames(st, n) == [i \in 1..n |-> <<st, i>>]

\* send_to_file 1064-1080: zfs send | split; split has made n files when it
\* ends, and a zfs send that failed leaves them short of the stream
SendSplit ==
    /\ pc = "transfer" /\ run.kind = "send_to_file"
    /\ \E n \in 0..MaxSegments, up_rc \in {0, 1}, down_rc \in {0, 1} :
       \E st \in {run.snapshot.name.snap} :
          /\ dir' = [dir EXCEPT !.segs = @ \cup Range(SegmentNames(st, n)),
                                !.bad = IF up_rc = 0 THEN @ ELSE @ \cup {st}]
          /\ hist' = [hist EXCEPT !.pipe = <<up_rc, down_rc>>]
          /\ IF _run_replication_cmd(up_rc, down_rc) # ""
             THEN Abort(_run_replication_cmd(up_rc, down_rc), src, dst)
             ELSE /\ run' = [run EXCEPT !.segments = SegmentNames(st, n)]
                  /\ pc' = "metadata"
                  /\ UNCHANGED <<src, dst>>
    /\ now' = now

\* send_to_file 1086-1088
WriteMetadata ==
    /\ pc = "metadata"
    /\ \E ok \in BOOLEAN :
       \E l \in {get_property(src, run.snapshot.name, ZFSSNAP_LABEL)} :
       \E v \in {get_property(l.h, run.snapshot.name, ZFSSNAP_VERSION)} :
       \E w \in {_write_metadata_file(run.segments, l.v, run.snapshot.name.snap, v.v,
                                      run.snapshot.name.snap, run.base_snapshot, ok)} :
          IF w.exc # "" THEN Abort(w.exc, v.h, dst) /\ dir' = dir
          ELSE /\ dir' = IF w.file = <<>> THEN dir
                         ELSE [dir EXCEPT !.meta = DictSet(@, run.snapshot.name.snap, w.file[1])]
               /\ src' = v.h
               /\ pc' = "mark"
               /\ UNCHANGED <<run, dst>>
    /\ UNCHANGED <<now, hist>>

\* what `zfs receive -F backup` leaves on the destination when it ends well,
\* fed by `zfs send -R [-I @base] tank@snapshot`: the filesystem, and the
\* source's snapshots with the properties they have on the source
received(dzfs, szfs, base) ==
    Let({n \in DOMAIN dzfs : n.fs = "backup" /\ IsSnapName(n)}, LAMBDA had :
    Let({n \in DOMAIN szfs : n.fs = "tank" /\ IsSnapName(n)}, LAMBDA mine :
    Let({n \in mine : base = NoSnapshot \/ strptime(n.snap) > strptime(base.name.snap)},
        LAMBDA sent :
    Let({n \in had : SnapName("tank", n.snap) \in mine}
            \cup {SnapName("backup", n.snap) : n \in sent}, LAMBDA snaps :
       [n \in (DOMAIN dzfs \ had) \cup {FsName("backup")} \cup snaps |->
           IF n \in snaps
           THEN (IF SnapName("tank", n.snap) \in sent THEN szfs[SnapName("tank", n.snap)] ELSE dzfs[n])
           ELSE IF n \in DOMAIN dzfs THEN dzfs[n] ELSE FsProps("off")]))))

\* replicate 956-958: zfs send | zfs receive -F; an incremental stream is
\* refused when the destination lacks the base snapshot, a receive that
\* fails leaves the destination as it was, and one that ends well on a send
\* that failed may have got the stream or not
SendReceive ==
    /\ pc = "transfer" /\ run.kind = "replicate"
    /\ \E up_rc \in {0, 1}, down_rc \in {0, 1}, arrived \in BOOLEAN :
          /\ down_rc = 0 =>
                \/ run.base_snapshot = NoSnapshot
                \/ SnapName("backup", run.base_snapshot.name.snap) \in DOMAIN dst.zfs
          /\ arrived => down_rc = 0
          /\ (up_rc = 0 /\ down_rc = 0) => arrived
          /\ hist' = [hist EXCEPT !.pipe = <<up_rc, down_rc>>]
          /\ IF _run_replication_cmd(up_rc, down_rc) # ""
             THEN Abort(_run_replication_cmd(up_rc, down_rc), src, dst)
             ELSE /\ dst' = IF arrived
                            THEN [dst EXCEPT !.zfs = received(dst.zfs, src.zfs, run.base_snapshot)]
                            ELSE dst
                  /\ pc' = "mark"
                  /\ UNCHANGED <<src, run>>
    /\ UNCHANGED <<dir, now>>

\* replicate 972 / send_to_file 1091: snapshot.repl_status = 'success'
MarkSource ==
    /\ pc = "mark"
    /\ \E ok \in BOOLEAN :
       \E h \in {set_property(src, run.snapshot.name, ZFSSNAP_REPL_STATUS,
                              Str("success"), ok)} :
          IF h.exc # "" THEN Abort(h.exc, h, dst) /\ hist' = hist
          ELSE /\ src' = h
               /\ pc' = IF run.kind = "replicate" THEN "dstmark" ELSE "retention"
               /\ hist' = [hist EXCEPT !.marked = TRUE]
               /\ UNCHANGED <<run, dst>>
    /\ UNCHANGED <<dir, now>>

\* readonly that is set or cleared whatever it is
_enforce_read_only_always(h, fs, read_only, ok) ==
    set_property(h, FsName(fs), "readonly", IF read_only THEN Str("on") ELSE None, ok)

\* ZFSSnap._enforce_read_only
_enforce_read_only(h, fs, read_only, ok) ==
    Let(get_property(h, FsName(fs), "readonly"), LAMBDA g :
        IF g.v = Str("on")
        THEN (IF ~read_only THEN set_property(g.h, FsName(fs), "readonly", None, ok) ELSE g.h)
        ELSE IF read_only THEN set_property(g.h, FsName(fs), "readonly", Str("on"), ok)
        ELSE g.h)

\* replicate that leaves the destination's copy as it arrived
MarkDest_skipped ==
    /\ pc = "dstmark"
    /\ pc' = "retention"
    /\ UNCHANGED <<src, dst, dir, now, run, hist>>

\* replicate 977-979: the destination's copy is looked up after a refresh and
\* marked; None has no repl_status to set
MarkDest ==
    /\ pc = "dstmark"
    /\ \E ok \in BOOLEAN, ok2 \in BOOLEAN :
       \E g \in {get_snapshot(dst, "backup", run.snapshot.name.snap, TRUE)} :
       \E v \in {get_property(src, run.snapshot.name, ZFSSNAP_REPL_STATUS)} :
       \E h \in {IF g.o = NoSnapshot THEN Raise(g.h, "AttributeError")
                 ELSE set_property(g.h, g.o.name, ZFSSNAP_REPL_STATUS, v.v, ok)} :
       \E h2 \in {IF h.exc # "" THEN h
                  ELSE _enforce_read_only(h, "backup", run.read_only, ok2)} :
          IF h2.exc # "" THEN Abort(h2.exc, v.h, h2)
          ELSE /\ src' = v.h
               /\ dst' = h2
               /\ pc' = "retention"
               /\ run' = run
    /\ UNCHANGED <<dir, now, hist>>

\* _run_replicate_policy 1158-1161 / _run_send_to_file_policy 1231-1233:
\* retention in replication role, then the lock is released and the process
\* ends; policy_config['keep'] is one of K
RetentionWith(K) ==
    /\ pc = "retention"
    /\ \E keep \in K, fail \in 0..1 :
       \E h \in {enforce_retention(src, "tank", keep, Str(Label), TRUE, FALSE, TRUE,
                                   now, fail)} :
          /\ src' = NewHost(h.zfs)
          /\ dst' = NewHost(dst.zfs)
          /\ run' = [NoRun EXCEPT !.kind = run.kind, !.exc = h.exc,
                                  !.at = IF h.exc # "" THEN pc ELSE "end"]
          /\ hist' = IF h.exc # "" THEN hist ELSE [hist EXCEPT !.ended = Append(@, run.kind)]
    /\ pc' = "idle"
    /\ UNCHANGED <<dir, now>>

Retention == RetentionWith(RunKeepPolicies)

\* the policies of an installation that keeps the latest snapshot
KeepLatest == [k \in KeepKeys |-> IF k = "latest" THEN 1 ELSE 0]
RetainLatest == RetentionWith({KeepLatest})

\* the source: tank and tank/child, and possibly one snapshot that carries
\* no zfssnap:label (zfssnap 1.x named its snapshots the same way and
\* labelled them zol:zfssnap:label)
LegacyStamp == <<2016, 12, 31, 23, 59, 59>>
StartOfTime == strptime(<<2017, 1, 19, 9, 41, 2>>)

Init ==
    /\ \E legacy \in BOOLEAN :
          src = NewHost((FsName("tank") :> FsProps("off")) @@ (FsName("tank/child") :> FsProps("off"))
                        @@ (IF legacy THEN SnapName("tank", LegacyStamp) :> ("type" :> "snapshot")
                            ELSE [n \in {} |-> EmptyDict]))
    /\ \E exists \in BOOLEAN :
          dst = NewHost(IF exists THEN FsName("backup") :> FsProps("off")
                        ELSE [n \in {} |-> EmptyDict])
    /\ dir = NoDir
    /\ now = StartOfTime
    /\ pc = "idle"
    /\ run = NoRun
    /\ hist = NoHist

Next ==
    \/ StartRun
    \/ GetBase
    \/ TakeSnapshot
    \/ SendSplit
    \/ SendReceive
    \/ WriteMetadata
    \/ MarkSource
    \/ MarkDest
    \/ Retention

Spec == Init /\ [][Next]_vars

\* ----------------------------------------------- the receiving side of a run
\* a path: whether it is absolute, and its components
Path(abs, parts) == [abs |-> abs, parts |-> parts]
\* os.path.join(a, b): an absolute b stands alone
path_join(a, b) == IF b.abs THEN b ELSE Path(a.abs, a.parts \o b.parts)

\* the name of a metadata file, '<prefix>_<timestamp>.json': the file of the
\* stamp that is numbered 0, its segments being numbered from 1
MetaName(st) == <<st, 0>>
\* the source directory of the policy, as an absolute and as a relative path
SrcDirs == {Path(TRUE, <<"srv", "incoming">>), Path(FALSE, <<"incoming">>)}

\* the names scandir finds in the directory
FileNames(d) == d.segs \cup {MetaName(st) : st \in DOMAIN d.meta}

\* os.remove(p) with the directory at src_dir: the file p names is unlinked,
\* a path that names none raises FileNotFoundError, and a file of denied,
\* those the system refuses to unlink, raises PermissionError
os_remove(d, src_dir, p, denied) ==
    IF /\ p.abs = src_dir.abs
       /\ Len(p.parts) = Len(src_dir.parts) + 1
       /\ SubSeq(p.parts, 1, Len(src_dir.parts)) = src_dir.parts
       /\ p.parts[Len(p.parts)] \in FileNames(d)
    THEN Let(p.parts[Len(p.parts)], LAMBDA name :
             IF name \in denied THEN [exc |-> "PermissionError", d |-> d]
             ELSE [exc |-> "",
                   d |-> [d EXCEPT !.segs = @ \ {name},
                                   !.meta = [st \in {x \in DOMAIN d.meta : MetaName(x) # name}
                                                 |-> d.meta[st]]]])
    ELSE [exc |-> "FileNotFoundError", d |-> d]

\* distutils.version.StrictVersion of the version strings of the model
StrictVersion(v) ==
    CASE v = "3.7.0" -> <<3, 7, 0>>
      [] v = "3.7.1" -> <<3, 7, 1>>
      [] v = "3.10.0" -> <<3, 10, 0>>
\* a comparison of the first number alone
VersionGreater_major(a, b) == a[1] > b[1]

\* StrictVersion.__gt__
VersionGreater(a, b) ==
    \/ a[1] > b[1]
    \/ a[1] = b[1] /\ a[2] > b[2]
    \/ a[1] = b[1] /\ a[2] = b[2] /\ a[3] > b[3]

\* a read that does not compare the checksum
MetadataFile_read_unverified(path, file) ==
    Let([depends_on |-> file.depends_on, label |-> file.label, segments |-> file.segments,
         snapshot |-> file.snapshot, timestamp |-> file.timestamp, version |-> file.version],
        LAMBDA metadata :
            IF metadata.version = "" \/ metadata.label = "" \/ metadata.segments = <<>>
            THEN [exc |-> "MetadataFileException", m |-> <<>>]
            ELSE [exc |-> "", m |-> <<metadata @@ [path |-> path]>>])

\* MetadataFile.read of the file at path: the checksum is compared and the
\* setters validate the fields
MetadataFile_read(path, file) ==
    Let([depends_on |-> file.depends_on, label |-> file.label, segments |-> file.segments,
         snapshot |-> file.snapshot, timestamp |-> file.timestamp, version |-> file.version],
        LAMBDA metadata :
            IF file.checksum # _get_checksum(metadata) \/ metadata.version = ""
               \/ metadata.label = "" \/ metadata.segments = <<>>
            THEN [exc |-> "MetadataFileException", m |-> <<>>]
            ELSE [exc |-> "", m |-> <<metadata @@ [path |-> path]>>])

RECURSIVE sorted_newest_first(_)
\* the metadata files with the newest first
sorted_newest_first(S) ==
    IF S = {} THEN <<>>
    ELSE Let(CHOOSE m \in S : \A o \in S : strptime(m.timestamp) >= strptime(o.timestamp),
             LAMBDA first : <<first>> \o sorted_newest_first(S \ {first}))

RECURSIVE sorted_by_datetime(_)
\* sorted(metadata_files, key=attrgetter('datetime')) of files whose
\* timestamps differ
sorted_by_datetime(S) ==
    IF S = {} THEN <<>>
    ELSE Let(CHOOSE m \in S : \A o \in S : strptime(m.timestamp) <= strptime(o.timestamp),
             LAMBDA first : <<first>> \o sorted_by_datetime(S \ {first}))

\* the orders in which scandir can list the metadata files of a directory
Listings(d) ==
    {q \in [1..Cardinality(DOMAIN d.meta) -> DOMAIN d.meta] :
        \A i, j \in DOMAIN q : q[i] = q[j] => i = j}

\* the exception the scan raises at a file it has read as r: that of the
\* read, or ReplicationException at a unit of the label and a newer version
scan_raises(r, label) ==
    IF r.exc # "" THEN r.exc
    ELSE IF /\ r.m[1].label = label
            /\ VersionGreater(StrictVersion(r.m[1].version), StrictVersion(VERSION))
         THEN "ReplicationException"
    ELSE ""

\* a scan that yields the units of every label
_get_metadata_files_any_label(d, src_dir, label, listing) ==
    Let([i \in DOMAIN listing |->
            MetadataFile_read(path_join(src_dir, Path(FALSE, <<MetaName(listing[i])>>)),
                              d.meta[listing[i]])], LAMBDA read :
    Let({i \in DOMAIN listing : scan_raises(read[i], label) # ""}, LAMBDA raising :
        IF raising # {}
        THEN [exc |-> scan_raises(read[CHOOSE i \in raising : \A j \in raising : i <= j], label),
              files |-> {}]
        ELSE [exc |-> "", files |-> {read[i].m[1] : i \in DOMAIN listing}]))

\* ZFSSnap._get_metadata_files, consumed to its end: the metadata files are
\* read in the order scandir lists them, the first that raises ends the
\* scan, one of another label is skipped
_get_metadata_files(d, src_dir, label, listing) ==
    Let([i \in DOMAIN listing |->
            MetadataFile_read(path_join(src_dir, Path(FALSE, <<MetaName(listing[i])>>)),
                              d.meta[listing[i]])], LAMBDA read :
    Let({i \in DOMAIN listing : scan_raises(read[i], label) # ""}, LAMBDA raising :
        IF raising # {}
        THEN [exc |-> scan_raises(read[CHOOSE i \in raising : \A j \in raising : i <= j], label),
              files |-> {}]
        ELSE [exc |-> "", files |-> {read[i].m[1] : i \in {j \in DOMAIN listing : read[j].m[1].label = label}}]))

RECURSIVE _cleanup_segments(_, _, _, _, _)
\* the loop of _cleanup_sync_files: the first exception leaves it
_cleanup_segments(d, src_dir, segments, i, denied) ==
    IF i > Len(segments) THEN [exc |-> "", d |-> d]
    ELSE Let(os_remove(d, src_dir, path_join(src_dir, Path(FALSE, <<segments[i]>>)), denied),
             LAMBDA r :
                IF r.exc # "" THEN r
                ELSE _cleanup_segments(r.d, src_dir, segments, i + 1, denied))

\* contextlib.suppress(FileNotFoundError) around a block that ended as r
suppress_FileNotFoundError(r) == IF r.exc = "FileNotFoundError" THEN [r EXCEPT !.exc = ""] ELSE r

\* ZFSSnap._cleanup_sync_files: FileNotFoundError is suppressed around the
\* whole of it, and any other exception leaves it
_cleanup_sync_files(d, src_dir, metadata, denied) ==
    Let(_cleanup_segments(d, src_dir, metadata.segments, 1, denied), LAMBDA r :
        suppress_FileNotFoundError(
            IF r.exc # "" THEN r
            ELSE os_remove(r.d, src_dir, path_join(src_dir, metadata.path), denied)))

\* the files of a unit the system may refuse to unlink: none, or one of them
Denials(metadata) ==
    {{}} \cup {{f} : f \in Range(metadata.segments) \cup {MetaName(metadata.snapshot)}}

\* _get_segments that does not look at the directory
_get_segments_unchecked(d, metadata_segments) == ""

\* ZFSSnap._get_segments, consumed by get_cat_cmd
_get_segments(d, metadata_segments) ==
    IF \E i \in 1..Len(metadata_segments) : metadata_segments[i] \notin FileNames(d)
    THEN "SegmentMissingException" ELSE ""

\* the stamps of the receiving side
T1 == <<2017, 1, 19, 9, 0, 0>>
T2 == <<2017, 1, 19, 10, 0, 0>>
T3 == <<2017, 1, 19, 11, 0, 0>>

\* the metadata file send_to_file writes for a snapshot st of the label,
\* taken with base dep by a sender of the version, split into n segments
UnitFile(st, label, version, dep, n) ==
    _write_metadata_file(SegmentNames(st, n), Str(label), st, Str(version), st,
                         IF dep = <<>> THEN NoSnapshot
                         ELSE [name |-> SnapName("tank", dep), id |-> 0], TRUE).file[1]

\* label and version of the units in the directory: of this policy from a
\* sender of the receiver's version or of a newer one, and of another policy
UnitKinds == {<<Label, VERSION>>, <<Label, "3.10.0">>, <<"other", "3.10.0">>}

\* what the directory can hold of the unit of T2: nothing, or its metadata
\* file and any subset of its segments
UnitsA ==
    {[meta |-> [s \in {} |-> EmptyDict], segs |-> {}]}
    \cup {[meta |-> (T2 :> UnitFile(T2, lv[1], lv[2], dep, n)), segs |-> present] :
            lv \in UnitKinds, dep \in {<<>>, T1},
            n \in 1..MaxSegments, present \in SUBSET Range(SegmentNames(T2, MaxSegments))}
\* a metadata file that was changed after it was written: its checksum, or
\* the base it names
Altered(file) ==
    {[file EXCEPT !.checksum = <<"altered">>], [file EXCEPT !.depends_on = T1]}

\* and of the unit of T3, of one segment, as it was written or altered
UnitsB ==
    {[meta |-> [s \in {} |-> EmptyDict], segs |-> {}]}
    \cup {[meta |-> (T3 :> UnitFile(T3, lv[1], lv[2], dep, 1)), segs |-> present] :
            lv \in UnitKinds \cup {<<Label, "3.7.0">>}, dep \in {<<>>, T2},
            present \in SUBSET Range(SegmentNames(T3, 1))}
    \cup {[meta |-> (T3 :> file), segs |-> Range(SegmentNames(T3, 1))] :
            file \in Altered(UnitFile(T3, Label, VERSION, <<>>, 1))}

\* the destination: no filesystem yet, or backup with snapshots earlier runs
\* received, marked 'success' or (the run died before it marked them) not
RecvSnapProps ==
    [success |-> ("type" :> "snapshot") @@ (ZFSSNAP_LABEL :> Label)
                    @@ (ZFSSNAP_VERSION :> VERSION) @@ (ZFSSNAP_REPL_STATUS :> "success"),
     unmarked |-> ("type" :> "snapshot") @@ (ZFSSNAP_LABEL :> Label)
                    @@ (ZFSSNAP_VERSION :> VERSION)]
RecvZfs ==
    {[n \in {} |-> EmptyDict]}
    \cup {(FsName("backup") :> FsProps("off"))
            @@ [n \in {SnapName("backup", st) : st \in DOMAIN c} |-> RecvSnapProps[c[n.snap]]] :
          c \in UNION {[S -> {"success"}] \cup {f \in [S -> {"success", "unmarked"}] :
                                                  \A st \in S \ {T1} : f[st] = "success"} :
                       S \in {X \in SUBSET {T1, T2, T3} : Cardinality(X) <= MaxSnaps}}}

RecvRun == [src_dir |-> Path(TRUE, <<>>), files |-> <<>>, k |-> 0, read_only |-> FALSE,
            previous_snapshot |-> NoSnapshot,
            lock |-> FALSE, returncode |-> 0, exc |-> "", at |-> "none"]

RecvInit ==
    /\ src = NewHost([n \in {} |-> EmptyDict])
    /\ dst \in {NewHost(z) : z \in RecvZfs}
    /\ \E a \in UnitsA, b \in UnitsB :
          dir = [meta |-> a.meta @@ b.meta, segs |-> a.segs \cup b.segs, bad |-> {}]
    /\ now = StartOfTime
    /\ pc = "idle"
    /\ \E src_dir \in SrcDirs : run = [RecvRun EXCEPT !.src_dir = src_dir]
    /\ hist = NoHist

\* policy_config['source']['dir'] of the receiving policy: what the run
\* before had when it was a run of this policy
PolicyDir(r) == IF "src_dir" \in DOMAIN r THEN {r.src_dir} ELSE SrcDirs

\* an exception leaves the run: the process ends, and with it its Host and
\* its hold of the lock
RecvAbort(e, d) ==
    /\ pc' = "idle"
    /\ run' = [run EXCEPT !.exc = e, !.at = pc, !.lock = FALSE]
    /\ dst' = NewHost(d.zfs)

\* _run_receive_from_file_policy 1164-1177: the metadata files are read and
\* the run returns when there are none
ScanWith(max) ==
    /\ pc = "idle"
    /\ hist.runs < max
    /\ \E src_dir \in PolicyDir(run) :
       \E r \in {_get_metadata_files(dir, src_dir, Label, listing) : listing \in Listings(dir)} :
          /\ run' = [RecvRun EXCEPT !.src_dir = src_dir, !.exc = r.exc,
                                    !.at = IF r.exc # "" THEN "scan" ELSE "none",
                                    !.files = sorted_by_datetime(r.files)]
          /\ pc' = IF r.exc # "" \/ r.files = {} THEN "idle" ELSE "host"
    /\ hist' = [hist EXCEPT !.runs = @ + 1, !.handled = <<>>, !.pipe = <<0, 0>>]
    /\ UNCHANGED <<src, dst, dir, now>>

Scan == ScanWith(MaxRuns)

\* the receive run that follows a chain of send_to_file runs
ScanChain == ScanWith(MaxChain)

\* _run_receive_from_file_policy 1179-1195: the Host, the filesystem, the
\* lock, which another zfssnap may hold until the wait times out
OpenHost ==
    /\ pc = "host"
    /\ \E free \in BOOLEAN, read_only \in BOOLEAN :
       \E h \in {cache_get_filesystems(NewHost(dst.zfs), FALSE)} :
          IF ~free THEN RecvAbort("ZFSSnapException", h)
          ELSE /\ dst' = IF get_filesystem(h, "backup") THEN h
                         ELSE cache_add_property(h, FsName("backup"), "type", Str("filesystem"))
               /\ run' = [run EXCEPT !.lock = TRUE, !.read_only = read_only, !.k = 1]
               /\ pc' = "unit"
    /\ UNCHANGED <<src, dir, now, hist>>

\* the run with a SegmentMissingException that is not caught
EndRun_uncaught(at) == RecvAbort(at, dst)

\* _release_lock at the end of the run, and the end of the process
EndRun(at) ==
    /\ pc' = "idle"
    /\ run' = [run EXCEPT !.lock = FALSE, !.at = at]
    /\ dst' = NewHost(dst.zfs)

\* a receiver that takes every unit for applied once the destination has a
\* 'success' snapshot
already_applied_any(previous_snapshot, metadata) == previous_snapshot # NoSnapshot

\* receive_from_file 1030: the destination has this unit or a later one
already_applied(previous_snapshot, metadata) ==
    /\ previous_snapshot # NoSnapshot
    /\ datetime(previous_snapshot) >= strptime(metadata.timestamp)

\* a receiver that does not look for the base of the unit
base_missing_unchecked(metadata, base) == FALSE

\* receive_from_file 1036: the unit names a base the destination lacks
base_missing(metadata, base) == metadata.depends_on # <<>> /\ base = NoSnapshot

\* receive_from_file 1024-1042 on the next unit: stale units are cleaned up,
\* the base must be there, and get_cat_cmd consumes _get_segments; the run
\* catches SegmentMissingException
Select ==
    /\ pc = "unit" /\ run.k <= Len(run.files)
    /\ \E metadata \in {run.files[run.k]} :
       \E p \in {get_latest_repl_snapshot(dst, "backup", Str(Label), Str("success"), TRUE)} :
          IF p.h.exc # "" THEN RecvAbort(p.h.exc, p.h) /\ UNCHANGED <<dir, hist>>
          ELSE IF already_applied(p.o, metadata)
          THEN \E denied \in Denials(metadata) :
               \E c \in {_cleanup_sync_files(dir, run.src_dir, metadata, denied)} :
                  /\ dir' = c.d
                  /\ IF c.exc # "" THEN RecvAbort(c.exc, p.h) /\ hist' = hist
                     ELSE /\ dst' = p.h
                          /\ run' = [run EXCEPT !.k = @ + 1, !.previous_snapshot = p.o]
                          /\ hist' = [hist EXCEPT !.handled =
                                          Append(@, <<metadata.snapshot, "stale">>)]
                          /\ pc' = "unit"
          ELSE \E g \in {IF metadata.depends_on # <<>>
                         THEN get_snapshot(p.h, "backup", metadata.depends_on, FALSE)
                         ELSE [h |-> p.h, o |-> NoSnapshot]} :
                  /\ UNCHANGED <<dir, hist>>
                  /\ IF g.h.exc # "" THEN RecvAbort(g.h.exc, g.h)
                     ELSE IF base_missing(metadata, g.o)
                     THEN RecvAbort("ReplicationException", g.h)
                     ELSE IF _get_segments(dir, metadata.segments) # ""
                     THEN EndRun("SegmentMissingException")
                     ELSE /\ dst' = g.h
                          /\ pc' = "receive"
                          /\ run' = [run EXCEPT !.previous_snapshot = p.o]
    /\ UNCHANGED <<src, now>>

\* what `cat segments | zfs receive -F backup` leaves when it ends well: the
\* filesystem, with the properties set on it, and the snapshot of the
\* stream; a full stream replaces the snapshots the filesystem held; the
\* properties of the snapshot may not arrive
received_file(dzfs, metadata, props) ==
    Let(SnapName("backup", metadata.snapshot), LAMBDA name :
    Let({n \in DOMAIN dzfs : n.fs = "backup" /\ IsSnapName(n) /\ metadata.depends_on = <<>>},
        LAMBDA gone :
        [n \in (DOMAIN dzfs \ gone) \cup {FsName("backup"), name} |->
            IF n = name
            THEN (IF props
                  THEN ("type" :> "snapshot") @@ (ZFSSNAP_LABEL :> metadata.label)
                          @@ (ZFSSNAP_VERSION :> metadata.version)
                  ELSE ("type" :> "snapshot"))
            ELSE IF n \in DOMAIN dzfs \ gone THEN dzfs[n] ELSE FsProps("off")]))

\* receive_from_file 1043-1044: an incremental stream is refused when the
\* base is missing or the snapshot is there already; a receive that ends
\* well on a cat that failed may have got the stream or not
Receive ==
    /\ pc = "receive"
    /\ \E up_rc \in {0, 1}, down_rc \in {0, 1}, arrived \in BOOLEAN, props \in BOOLEAN :
       \E metadata \in {run.files[run.k]} :
          /\ down_rc = 0 =>
                \/ metadata.depends_on = <<>>
                \/ /\ SnapName("backup", metadata.depends_on) \in DOMAIN dst.zfs
                   /\ SnapName("backup", metadata.snapshot) \notin DOMAIN dst.zfs
          /\ arrived => down_rc = 0
          /\ (up_rc = 0 /\ down_rc = 0) => arrived
          /\ arrived \/ ~props
          /\ hist' = [hist EXCEPT !.pipe = <<up_rc, down_rc>>]
          /\ IF _run_replication_cmd(up_rc, down_rc) # ""
             THEN /\ pc' = "idle"
                  /\ run' = [run EXCEPT !.exc = _run_replication_cmd(up_rc, down_rc), !.at = pc,
                                        !.lock = FALSE, !.returncode = down_rc]
                  /\ dst' = NewHost(dst.zfs)
             ELSE /\ dst' = IF arrived
                            THEN [dst EXCEPT !.zfs = received_file(dst.zfs, metadata, props)]
                            ELSE dst
                  /\ pc' = "finish"
                  /\ run' = [run EXCEPT !.returncode = down_rc]
    /\ UNCHANGED <<src, dir, now>>

\* receive_from_file 1048-1058: the snapshot is labelled and marked, read
\* only is enforced and the files are cleaned up; the zfs command numbered
\* fail is the one that fails, 0 for none
Finish ==
    /\ pc = "finish"
    /\ \E fail \in 0..4 :
       \E metadata \in {run.files[run.k]} :
       \E name \in {SnapName("backup", metadata.snapshot)} :
       \E h0 \in {cache_add_property(dst, name, "type", Str("snapshot"))} :
       \E h1 \in {set_property(h0, name, ZFSSNAP_LABEL, Str(metadata.label), fail # 1)} :
       \E h2 \in {set_property(h1, name, ZFSSNAP_VERSION, Str(metadata.version), fail # 2)} :
       \E h3 \in {set_property(h2, name, ZFSSNAP_REPL_STATUS, Str("success"), fail # 3)} :
       \E h4 \in {IF h3.exc # "" THEN h3
                  ELSE _enforce_read_only(h3, "backup", run.read_only, fail # 4)} :
          IF h4.exc # "" THEN RecvAbort(h4.exc, h4) /\ UNCHANGED <<dir, hist>>
          ELSE \E denied \in Denials(metadata) :
               \E c \in {_cleanup_sync_files(dir, run.src_dir, metadata, denied)} :
                  /\ dir' = c.d
                  /\ IF c.exc # "" THEN RecvAbort(c.exc, h4) /\ hist' = hist
                     ELSE /\ dst' = h4
                          /\ run' = [run EXCEPT !.k = @ + 1]
                          /\ hist' = [hist EXCEPT !.handled =
                                          Append(@, <<metadata.snapshot, "applied">>)]
                          /\ pc' = "unit"
    /\ UNCHANGED <<src, now>>

\* _run_receive_from_file_policy 1203: every unit has been handled
Release ==
    /\ pc = "unit" /\ run.k > Len(run.files)
    /\ EndRun("end")
    /\ hist' = [hist EXCEPT !.ended = Append(@, "receive_from_file")]
    /\ UNCHANGED <<src, dir, now>>

RecvNext ==
    \/ Scan
    \/ OpenHost
    \/ Select
    \/ Receive
    \/ Finish
    \/ Release

SpecRecv == RecvInit /\ [][RecvNext]_vars

\* ------------------------------------------------- both sides of a transfer
\* the policies of one installation, which keep the latest snapshot: the
\* source is replicated or sent to the directory, and the directory is
\* received from
AllNext ==
    \/ StartRun
    \/ GetBase
    \/ TakeSnapshot
    \/ SendSplit
    \/ SendReceive
    \/ WriteMetadata
    \/ MarkSource
    \/ MarkDest
    \/ RetainLatest
    \/ Scan
    \/ OpenHost
    \/ Select
    \/ Receive
    \/ Finish
    \/ Release

SpecAll == Init /\ [][AllNext]_vars

\* --------------------------------------------- a chain of units and a receive
\* send_to_file runs of one policy that follow each other, with any of the
\* keep policies, and receive runs on the directory they write to
ChainNext ==
    \/ StartSend
    \/ GetBase
    \/ TakeSnapshot
    \/ SendSplit
    \/ WriteMetadata
    \/ MarkSource
    \/ Retention
    \/ ScanChain
    \/ OpenHost
    \/ Select
    \/ Receive
    \/ Finish
    \/ Release

SpecChain == Init /\ [][ChainNext]_vars

\* ------------------------------------------- a run that waits for the lock
\* A run of the same policy that holds the lock and goes through while this
\* one waits in _aquire_lock: with a Host of its own it selects its base,
\* snapshots at t, transfers, marks and enforces retention. What it leaves
\* of the source (s), the destination (d) and the directory (f).
other_run(kind, szfs, dzfs, d, t, keep, read_only) ==
    Let(get_base_snapshot(cache_get_filesystems(NewHost(szfs), FALSE), "tank", Str(Label), <<>>),
        LAMBDA b :
    Let(snapshot(b.h, "tank", Label, TRUE, t, TRUE), LAMBDA sn :
    Let(strftime(t), LAMBDA st :
        IF sn.h.exc # "" THEN [s |-> sn.h.zfs, d |-> dzfs, f |-> d]
        ELSE IF kind = "replicate" /\ b.o # NoSnapshot
                /\ SnapName("backup", b.o.name.snap) \notin DOMAIN dzfs
        THEN [s |-> sn.h.zfs, d |-> dzfs, f |-> d]
        ELSE
        Let(set_property(sn.h, sn.o.name, ZFSSNAP_REPL_STATUS, Str("success"), TRUE), LAMBDA h2 :
        Let(enforce_retention(h2, "tank", keep, Str(Label), TRUE, FALSE, TRUE, t, 0), LAMBDA h3 :
            IF kind = "replicate"
            THEN Let(get_snapshot(NewHost(received(dzfs, sn.h.zfs, b.o)), "backup", st, TRUE),
                     LAMBDA g :
                 Let(set_property(g.h, g.o.name, ZFSSNAP_REPL_STATUS, Str("success"), TRUE),
                     LAMBDA m :
                     [s |-> h3.zfs, d |-> _enforce_read_only(m, "backup", read_only, TRUE).zfs,
                      f |-> d]))
            ELSE Let(_write_metadata_file(SegmentNames(st, 1), Str(Label), st, Str(VERSION), st,
                                          b.o, TRUE), LAMBDA w :
                     [s |-> h3.zfs, d |-> dzfs,
                      f |-> [d EXCEPT !.segs = @ \cup Range(SegmentNames(st, 1)),
                                      !.meta = DictSet(@, st, w.file[1])]]))))))

\* _aquire_lock of a run whose Hosts have read the filesystems: another run
\* holds the lock, goes through and lets it go a second later
Waited ==
    /\ pc = "base" /\ ~run.waited
    /\ \E r \in {other_run(run.kind, src.zfs, dst.zfs, dir, now, KeepLatest, run.read_only)} :
          /\ src' = [src EXCEPT !.zfs = r.s]
          /\ dst' = [dst EXCEPT !.zfs = r.d]
          /\ dir' = r.f
    /\ now' = now + 1
    /\ run' = [run EXCEPT !.waited = TRUE]
    /\ UNCHANGED <<pc, hist>>

WaitNext ==
    \/ StartRunSoon
    \/ Waited
    \/ GetBase
    \/ TakeSnapshot
    \/ SendSplit
    \/ SendReceive
    \/ WriteMetadata
    \/ MarkSource
    \/ MarkDest
    \/ RetainLatest

SpecWait == Init /\ [][WaitNext]_vars

\* ------------------------------------------- two runs and one lock file
\* Two zfssnap processes, started with the same lock file, each run the
\* snapshot policy of tank once (_run_snapshot_policy). src is the machine,
\* dir the lock file with the processes that hold a lock on it, pc and run
\* the position and the locals of each process, hist the changes each
\* process has made to the machine and the order the processes made them in.
Procs == {1, 2}
\* wait and timeout of _aquire_lock
LockWait == 3
LockTimeout == 60

NoProc == [reset |-> FALSE, wake |-> 0, after |-> FALSE, host |-> NewHost([n \in {} |-> EmptyDict]),
           timeout |-> 0, attempts |-> 0, locked |-> FALSE, exc |-> ""]

LockInit ==
    /\ src = [zfs |-> FsName("tank") :> FsProps("off")]
    /\ dst = NewHost([n \in {} |-> EmptyDict])
    /\ dir = [holders |-> {}]
    /\ now = StartOfTime
    /\ pc = [p \in Procs |-> "start"]
    /\ run = [p \in Procs |-> NoProc]
    /\ hist = [muts |-> [p \in Procs |-> 0], order |-> <<>>]

\* the clock of the machine moves on
Tick ==
    /\ now < StartOfTime + MaxTicks
    /\ now' = now + 1
    /\ UNCHANGED <<src, dst, dir, pc, run, hist>>

\* a lock that is granted whoever holds one
lockf_unguarded(holders, p) == TRUE

\* fcntl.lockf(self._lock, LOCK_EX | LOCK_NB): granted unless another
\* process holds a lock on the file
lockf(holders, p) == holders \ {p} = {}

\* a budget that a failed attempt takes less from
spend_less(timeout) == timeout - (LockWait - 1)

\* timeout = timeout - wait
spend(timeout) == timeout - LockWait

\* process p has changed the machine from z to y, or has left it as it was
Mutated(p, z, y) ==
    IF y = z THEN hist
    ELSE [muts |-> [hist.muts EXCEPT ![p] = @ + 1],
          order |-> IF hist.order # <<>> /\ hist.order[Len(hist.order)] = p
                    THEN hist.order ELSE Append(hist.order, p)]

\* process p raises e and ends without a call of _release_lock
Uncaught(p, e) ==
    /\ pc' = [pc EXCEPT ![p] = "exit"]
    /\ run' = [run EXCEPT ![p].exc = e]

\* time.sleep(1) of a run that is not a reset: the second in which it ends
sleep(t, reset) == IF reset THEN t ELSE t + 1

\* main and the start of _run_snapshot_policy: the process sleeps a second
\* unless it resets
Sleep(p) ==
    /\ pc[p] = "start"
    /\ \E reset \in BOOLEAN :
          run' = [run EXCEPT ![p] = [NoProc EXCEPT
                                       !.reset = reset, !.wake = sleep(now, reset),
                                       !.after = \A q \in Procs \ {p} : pc[q] \in {"exit", "done"}]]
    /\ pc' = [pc EXCEPT ![p] = "policy"]
    /\ UNCHANGED <<src, dst, dir, now, hist>>

\* _run_snapshot_policy from the end of the sleep up to the call of
\* _aquire_lock: the Host is made; get_filesystems is a generator that reads
\* nothing before the loop over the datasets asks for the first of them
RunPolicy(p) ==
    /\ pc[p] = "policy"
    /\ now >= run[p].wake
    /\ run' = [run EXCEPT ![p].host = NewHost(src.zfs), ![p].timeout = LockTimeout]
    /\ pc' = [pc EXCEPT ![p] = "lock"]
    /\ UNCHANGED <<src, dst, dir, now, hist>>

\* one turn of the loop of _aquire_lock: the lock is granted and the call
\* returns, or the budget is spent on and, when it is used up,
\* ZFSSnapException is raised
_aquire_lock(p) ==
    /\ pc[p] = "lock" /\ run[p].timeout > 0
    /\ IF lockf(dir.holders, p)
       THEN /\ dir' = [dir EXCEPT !.holders = @ \cup {p}]
            /\ run' = [run EXCEPT ![p].locked = TRUE]
            /\ pc' = [pc EXCEPT ![p] = IF run[p].reset THEN "retention" ELSE "snapshot"]
       ELSE /\ dir' = dir
            /\ IF spend(run[p].timeout) > 0
               THEN /\ run' = [run EXCEPT ![p].timeout = spend(@), ![p].attempts = @ + 1]
                    /\ pc' = pc
               ELSE /\ run' = [run EXCEPT ![p].timeout = spend(@), ![p].attempts = @ + 1,
                                          ![p].exc = "ZFSSnapException"]
                    /\ pc' = [pc EXCEPT ![p] = "exit"]
    /\ UNCHANGED <<src, dst, now, hist>>

\* dataset.snapshot(label, recursive)
DatasetSnapshot(p) ==
    /\ pc[p] = "snapshot"
    /\ \E r \in {snapshot(cache_get_filesystems([run[p].host EXCEPT !.zfs = src.zfs], FALSE),
                          "tank", Label, FALSE, now, TRUE)} :
          /\ src' = [zfs |-> r.h.zfs]
          /\ hist' = Mutated(p, src.zfs, r.h.zfs)
          /\ IF r.h.exc # "" THEN Uncaught(p, r.h.exc)
             ELSE /\ run' = [run EXCEPT ![p].host = r.h]
                  /\ pc' = [pc EXCEPT ![p] = "retention"]
    /\ UNCHANGED <<dst, dir, now>>

\* dataset.enforce_retention(keep, label, recursive, reset)
DatasetRetention(p) ==
    /\ pc[p] = "retention"
    /\ \E fail \in 0..1 :
       \E h \in {enforce_retention(cache_get_filesystems([run[p].host EXCEPT !.zfs = src.zfs],
                                                          FALSE),
                                   "tank", KeepLatest, Str(Label), FALSE, run[p].reset, FALSE,
                                   now, fail)} :
          /\ src' = [zfs |-> h.zfs]
          /\ hist' = Mutated(p, src.zfs, h.zfs)
          /\ IF h.exc # "" THEN Uncaught(p, h.exc)
             ELSE /\ run' = [run EXCEPT ![p].host = h]
                  /\ pc' = [pc EXCEPT ![p] = "release"]
    /\ UNCHANGED <<dst, dir, now>>

\* fcntl.flock(self._lock, LOCK_UN): the lock was taken with lockf, and
\* whether flock undoes it depends on the platform
_release_lock(p) ==
    /\ pc[p] = "release"
    /\ \E undone \in BOOLEAN :
          dir' = [dir EXCEPT !.holders = IF undone THEN @ \ {p} ELSE @]
    /\ run' = [run EXCEPT ![p].locked = FALSE]
    /\ pc' = [pc EXCEPT ![p] = "exit"]
    /\ UNCHANGED <<src, dst, now, hist>>

\* the process ends and its locks go with it
ProcessExit(p) ==
    /\ pc[p] = "exit"
    /\ dir' = [dir EXCEPT !.holders = @ \ {p}]
    /\ run' = [run EXCEPT ![p].locked = FALSE]
    /\ pc' = [pc EXCEPT ![p] = "done"]
    /\ UNCHANGED <<src, dst, now, hist>>

LockNext ==
    \/ Tick
    \/ \E p \in Procs : Sleep(p)
    \/ \E p \in Procs : RunPolicy(p)
    \/ \E p \in Procs : _aquire_lock(p)
    \/ \E p \in Procs : DatasetSnapshot(p)
    \/ \E p \in Procs : DatasetRetention(p)
    \/ \E p \in Procs : _release_lock(p)
    \/ \E p \in Procs : ProcessExit(p)

SpecLock == LockInit /\ [][LockNext]_vars

\* a process that is running takes its next turn of the loop
SpecLockFair == LockInit /\ [][LockNext]_vars /\ \A p \in Procs : WF_vars(_aquire_lock(p))

\* ------------------------------------------------ snapshots of any label
\* The labels of the policies of a configuration: words and strs made of
\* digits ('-' is the one snapshot creation refuses). A Host makes
\* snapshots of tank under these labels, marks them and lists them by
\* label, from its cache as it stands or after a refresh.
Labels == {Label, "42", "0", "-"}

LabelInit ==
    /\ now = StartOfTime
    /\ src = NewHost((FsName("tank") :> FsProps("off")) @@ (FsName("tank/child") :> FsProps("off")))
    /\ dst = NewHost([n \in {} |-> EmptyDict])
    /\ dir = NoDir
    /\ pc = "host"
    /\ run = [op |-> "none", made |-> {}, label |-> "", out |-> <<>>, pin |-> NoSnapshot]
    /\ hist = [runs |-> 0]

\* Filesystem.snapshot(label, recursive) a second after the one before
LabelSnapshot ==
    /\ pc = "host" /\ src.exc = "" /\ hist.runs < MaxHostOps
    /\ \E label \in Labels, recursive \in BOOLEAN :
       \E r \in {snapshot(cache_get_filesystems(src, FALSE), "tank", label, recursive,
                          now + 1, TRUE)} :
          /\ src' = r.h
          /\ run' = [run EXCEPT !.op = "snapshot",
                                !.made = IF r.h.exc = ""
                                         THEN @ \cup {[name |-> r.o.name, label |-> label]}
                                         ELSE @]
    /\ now' = now + 1
    /\ hist' = [hist EXCEPT !.runs = @ + 1]
    /\ UNCHANGED <<dst, dir, pc>>

\* snapshot.repl_status = 'success' on a snapshot the Host holds
LabelMark ==
    /\ pc = "host" /\ src.exc = "" /\ hist.runs < MaxHostOps
    /\ \E o \in Range(src.snaps) :
          src' = set_property(src, o.name, ZFSSNAP_REPL_STATUS, Str("success"), TRUE)
    /\ run' = [run EXCEPT !.op = "mark"]
    /\ hist' = [hist EXCEPT !.runs = @ + 1]
    /\ UNCHANGED <<dst, dir, now, pc>>

\* Filesystem.get_snapshots(label, refresh) and get_latest_repl_snapshot
\* (label, refresh=refresh) of a label a snapshot was made under
LabelRead ==
    /\ pc = "host" /\ src.exc = "" /\ hist.runs < MaxHostOps
    /\ \E label \in {m.label : m \in run.made}, refresh \in BOOLEAN :
       \E r \in {get_snapshots(src, "tank", Str(label), refresh)} :
       \E p \in {get_latest_repl_snapshot(r.h, "tank", Str(label), Str("success"), FALSE)} :
          /\ src' = p.h
          /\ run' = [run EXCEPT !.op = "read", !.label = label, !.out = r.out, !.pin = p.o]
    /\ hist' = [hist EXCEPT !.runs = @ + 1]
    /\ UNCHANGED <<dst, dir, now, pc>>

LabelNext ==
    \/ LabelSnapshot
    \/ LabelMark
    \/ LabelRead

SpecLabel == LabelInit /\ [][LabelNext]_vars

\* ------------------------------------------------- one snapshot policy run
\* _run_snapshot_policy of tank, not a reset, with a keep policy that keeps
\* something, started close to the end of an hour and of a year; the clock
\* moves on between the steps of the run
SnapNow == {StartOfTime, strptime(<<2017, 1, 19, 9, 59, 57>>),
            strptime(<<2016, 12, 31, 23, 59, 57>>)}
SnapStamps == {<<2016, 12, 31, 22, 0, 0>>, <<2017, 1, 19, 9, 0, 0>>}
SnapKeeps == {k \in KeepPolicies : \E x \in KeepKeys : k[x] > 0}

SnapInit ==
    /\ now \in SnapNow
    /\ \E S \in SUBSET SnapStamps :
          /\ \A st \in S : strptime(st) <= now
          /\ src = NewHost((FsName("tank") :> FsProps("off")) @@ (FsName("tank/child") :> FsProps("off"))
                           @@ [n \in {SnapName("tank", st) : st \in S} |->
                                  ("type" :> "snapshot") @@ (ZFSSNAP_LABEL :> Label)
                                      @@ (ZFSSNAP_VERSION :> VERSION)])
    /\ dst = NewHost([n \in {} |-> EmptyDict])
    /\ dir = NoDir
    /\ pc = "start"
    /\ run = [keep |-> KeepLatest, recursive |-> FALSE, snapshot |-> NoSnapshot, taken |-> 0,
              exc |-> ""]
    /\ hist = [ticks |-> 0]

\* _run_snapshot_policy 1094-1109: the sleep, the policy, the Host, the lock
SnapStart ==
    /\ pc = "start"
    /\ \E keep \in SnapKeeps, recursive \in BOOLEAN :
          run' = [run EXCEPT !.keep = keep, !.recursive = recursive]
    /\ now' = sleep(now, FALSE)
    /\ src' = NewHost(src.zfs)
    /\ pc' = "snapshot"
    /\ UNCHANGED <<dst, dir, hist>>

\* the clock moves on while the run is under way
SnapTick ==
    /\ pc \in {"snapshot", "retention"}
    /\ hist.ticks < MaxTicks
    /\ now' = now + 1
    /\ hist' = [hist EXCEPT !.ticks = @ + 1]
    /\ UNCHANGED <<src, dst, dir, pc, run>>

\* _run_snapshot_policy 1114-1116: get_filesystems yields the dataset and
\* dataset.snapshot(label, recursive) names the snapshot by the clock
SnapSnapshot ==
    /\ pc = "snapshot"
    /\ \E ok \in BOOLEAN :
       \E r \in {snapshot(cache_get_filesystems(src, FALSE), "tank", Label, run.recursive,
                          now, ok)} :
          /\ src' = r.h
          /\ IF r.h.exc # "" THEN pc' = "exit" /\ run' = [run EXCEPT !.exc = r.h.exc]
             ELSE pc' = "retention" /\ run' = [run EXCEPT !.snapshot = r.o, !.taken = now]
    /\ UNCHANGED <<dst, dir, now, hist>>

\* _run_snapshot_policy 1118: dataset.enforce_retention(keep, label,
\* recursive, reset), which reads the clock again
SnapRetention ==
    /\ pc = "retention"
    /\ \E fail \in 0..1 :
       \E h \in {enforce_retention(src, "tank", run.keep, Str(Label), run.recursive, FALSE,
                                   FALSE, now, fail)} :
          /\ src' = h
          /\ run' = [run EXCEPT !.exc = h.exc]
    /\ pc' = "done"
    /\ UNCHANGED <<dst, dir, now, hist>>

SnapNext ==
    \/ SnapStart
    \/ SnapTick
    \/ SnapSnapshot
    \/ SnapRetention

SpecSnap == SnapInit /\ [][SnapNext]_vars

\* ============================================ a MetadataFile object alone
\* A str made of a timestamp: the name of a snapshot, 'zfssnap_<timestamp>',
\* and the timestamp itself
NameFormat == "zfssnap_%Y%m%dT%H%M%SZ"
TimestampFormat == "%Y%m%dT%H%M%SZ"
Strf(format, st) == <<"str", format, st>>
List(seq) == <<"list", seq>>

Attrs == {"version", "timestamp", "label", "snapshot", "depends_on", "segments"}
MetaPath == MetaName(T3)

\* MetadataFile(path)
NewMetadataFile ==
    [version |-> None, timestamp |-> None, label |-> None, snapshot |-> None,
     depends_on |-> None, segments |-> List(<<>>)]

\* re.match of a pattern that holds one format; what is not a str is a TypeError
re_match(format, value) ==
    IF value[1] # "str" THEN "TypeError"
    ELSE IF Len(value) = 3 /\ value[2] = format THEN "" ELSE "MetadataFileException"

\* the setter of an attribute: the exception it raises and the object it leaves
setattr(self, attr, value) ==
    LET raise(e) == [exc |-> e, self |-> self]
        set == [exc |-> "", self |-> [self EXCEPT ![attr] = value]]
    IN  CASE attr \in {"label", "version"} ->
                 IF ~Truthy(value) \/ value[1] # "str" THEN raise("MetadataFileException") ELSE set
          [] attr = "segments" ->
                 IF ~Truthy(value) \/ value[1] # "list" THEN raise("MetadataFileException") ELSE set
          [] attr = "snapshot" ->
                 Let(re_match(NameFormat, value), LAMBDA e : IF e # "" THEN raise(e) ELSE set)
          [] attr = "depends_on" ->
                 IF value = None THEN [exc |-> "", self |-> self]
                 ELSE Let(re_match(NameFormat, value), LAMBDA e : IF e # "" THEN raise(e) ELSE set)
          [] attr = "timestamp" ->
                 Let(re_match(TimestampFormat, value), LAMBDA e : IF e # "" THEN raise(e) ELSE set)

\* json.load that reads null as the empty str
json_load_null_as_empty(j) ==
    CASE j[1] = "null" -> Str("")
      [] j[1] = "string" -> <<"str">> \o Tail(j)
      [] j[1] = "number" -> <<"int">> \o Tail(j)
      [] j[1] = "array" -> List([i \in DOMAIN j[2] |-> <<"str">> \o Tail(j[2][i])])

\* json.dumps of a value: null, a string, a number, an array of strings
json_dumps(v) ==
    CASE v[1] = "none" -> <<"null">>
      [] v[1] = "str" -> <<"string">> \o Tail(v)
      [] v[1] = "int" -> <<"number">> \o Tail(v)
      [] v[1] = "list" -> <<"array", [i \in DOMAIN v[2] |-> <<"string">> \o Tail(v[2][i])]>>

\* json.load of a document
json_load(j) ==
    CASE j[1] = "null" -> None
      [] j[1] = "string" -> <<"str">> \o Tail(j)
      [] j[1] = "number" -> <<"int">> \o Tail(j)
      [] j[1] = "array" -> List([i \in DOMAIN j[2] |-> <<"str">> \o Tail(j[2][i])])

\* the md5 hex digest of json.dumps(metadata, sort_keys=True), a str
hexdigest(metadata) == <<"str", "md5", _get_checksum([k \in Attrs |-> json_dumps(metadata[k])])>>

\* a write that lets an unset timestamp pass as well
write_any_timestamp(self, d) ==
    Let([k \in Attrs |-> self[k]] @@ [checksum |-> hexdigest(self)], LAMBDA metadata :
        IF \E key \in DOMAIN metadata \ {"depends_on", "timestamp"} : ~Truthy(metadata[key])
        THEN [exc |-> "MetadataFileException", d |-> d]
        ELSE [exc |-> "",
              d |-> [d EXCEPT !.meta =
                        (MetaPath :> [k \in DOMAIN metadata |-> json_dumps(metadata[k])]) @@ @]])

\* MetadataFile.write: the exception it raises and the directory it leaves
write(self, d) ==
    Let([k \in Attrs |-> self[k]] @@ [checksum |-> hexdigest(self)], LAMBDA metadata :
        IF \E key \in DOMAIN metadata \ {"depends_on"} : ~Truthy(metadata[key])
        THEN [exc |-> "MetadataFileException", d |-> d]
        ELSE [exc |-> "",
              d |-> [d EXCEPT !.meta =
                        (MetaPath :> [k \in DOMAIN metadata |-> json_dumps(metadata[k])]) @@ @]])

\* the setters of read, one after the other, until one raises
RECURSIVE SetAll(_, _, _)
SetAll(r, metadata, attrs) ==
    IF attrs = <<>> \/ r.exc # "" THEN r
    ELSE SetAll(setattr(r.self, Head(attrs), metadata[Head(attrs)]), metadata, Tail(attrs))

\* MetadataFile.read, the fields being Python values: the exception it raises
\* and the object it leaves
read(self, d) ==
    IF MetaPath \notin DOMAIN d.meta THEN [exc |-> "FileNotFoundError", self |-> self]
    ELSE Let([k \in DOMAIN d.meta[MetaPath] |-> json_load(d.meta[MetaPath][k])], LAMBDA loaded :
             IF loaded.checksum # hexdigest(loaded)
             THEN [exc |-> "MetadataFileException", self |-> self]
             ELSE SetAll([exc |-> "", self |-> self], loaded,
                         <<"version", "timestamp", "label", "snapshot", "depends_on", "segments">>))

\* the values a caller hands to a setter
AttrValues(attr) ==
    CASE attr = "label" -> {None, Str(""), Str(Label), <<"int", "42">>}
      [] attr = "version" -> {None, Str(""), Str(VERSION), <<"int", "42">>}
      [] attr = "segments" ->
             {List(<<>>), Str("aaa"), List(<<Str("aaa")>>), List(<<Str("aaa"), Str("aab")>>)}
      [] attr = "snapshot" ->
             {None, Str("tank"), Strf(TimestampFormat, T3), Strf(NameFormat, T3)}
      [] attr = "depends_on" -> {None, Str("tank"), <<"int", "42">>, Strf(NameFormat, T2)}
      [] attr = "timestamp" ->
             {None, Str(""), Strf(NameFormat, T3), Strf(TimestampFormat, T3)}

MetaInit ==
    /\ src = NewHost([n \in {} |-> EmptyDict])
    /\ dst = NewHost([n \in {} |-> EmptyDict])
    /\ dir = NoDir
    /\ now = 0
    /\ pc = "metadata"
    /\ run = [op |-> "none", exc |-> "", self |-> NewMetadataFile, fresh |-> NewMetadataFile]
    /\ hist = [runs |-> 0]

\* the caller sets an attribute of the object
SetAttr ==
    /\ pc = "metadata"
    /\ \E attr \in Attrs :
          \E value \in AttrValues(attr) :
              \E r \in {setattr(run.self, attr, value)} :
                  run' = [run EXCEPT !.op = "set", !.exc = r.exc, !.self = r.self]
    /\ UNCHANGED <<src, dst, dir, now, pc, hist>>

\* the caller writes the object to its file
WriteFile ==
    /\ pc = "metadata"
    /\ \E r \in {write(run.self, dir)} :
          /\ run' = [run EXCEPT !.op = "write", !.exc = r.exc]
          /\ dir' = r.d
    /\ UNCHANGED <<src, dst, now, pc, hist>>

\* the file is changed where it lies: one of its values, or its checksum
AlterFile ==
    /\ pc = "metadata"
    /\ MetaPath \in DOMAIN dir.meta
    /\ \E key \in {"depends_on", "checksum"} :
          dir' = [dir EXCEPT !.meta[MetaPath][key] = <<"string", "altered">>]
    /\ run' = [run EXCEPT !.op = "alter", !.exc = ""]
    /\ UNCHANGED <<src, dst, now, pc, hist>>

\* the file is read into a fresh object
ReadFile ==
    /\ pc = "metadata"
    /\ \E r \in {read(NewMetadataFile, dir)} :
          run' = [run EXCEPT !.op = "read", !.exc = r.exc, !.fresh = r.self]
    /\ UNCHANGED <<src, dst, dir, now, pc, hist>>

MetaNext == SetAttr \/ WriteFile \/ AlterFile \/ ReadFile
SpecMeta == MetaInit /\ [][MetaNext]_vars

\* ================================================== a Host and its cache
\* Host.cache_remove_filesystem: list.remove, then dict.pop
cache_remove_filesystem(h, fs) ==
    IF FsName(fs) \notin Range(h.fss) THEN Raise(h, "ValueError")
    ELSE IF FsName(fs) \notin DOMAIN h.props
         THEN Raise([h EXCEPT !.fss = SeqRemove(h.fss, FsName(fs))], "KeyError")
    ELSE [h EXCEPT !.fss = SeqRemove(h.fss, FsName(fs)), !.props = DictPop(h.props, FsName(fs))]

\* Filesystem.destroy: zfs destroy [-r], which without -r refuses a filesystem
\* that has children or snapshots; then the object leaves the cache
Filesystem_destroy(h, fs, recursive, ok) ==
    IF h.exc # "" THEN h
    ELSE Let({n \in DOMAIN h.zfs : n.fs \in Descendants(fs)}, LAMBDA gone :
             IF ~ok \/ FsName(fs) \notin DOMAIN h.zfs \/ (~recursive /\ gone # {FsName(fs)})
             THEN Raise(h, "CalledProcessError")
             ELSE cache_remove_filesystem(
                      [h EXCEPT !.zfs = [n \in DOMAIN h.zfs \ gone |-> h.zfs[n]]], fs))

HostStart == strptime(<<2017, 3, 1, 0, 0, 0>>)

\* a host with tank and tank/child, and perhaps a snapshot of tank/child
HostInit ==
    /\ now = HostStart
    /\ \E S \in SUBSET {SnapName("tank/child", <<2017, 2, 28, 23, 10, 0>>)} :
          src = NewHost((FsName("tank") :> FsProps("off")) @@ (FsName("tank/child") :> FsProps("off"))
                        @@ [n \in S |-> ("type" :> "snapshot") @@ (ZFSSNAP_LABEL :> Label)
                                            @@ (ZFSSNAP_VERSION :> VERSION)])
    /\ dst = NewHost([n \in {} |-> EmptyDict])
    /\ dir = NoDir
    /\ pc = "host"
    /\ run = [op |-> "none"]
    /\ hist = [runs |-> 0, reached |-> FALSE]

\* the filesystems and the snapshots a caller gets from the host
HeldFs(h) == {n.fs : n \in Range(h.fss)}
HeldSnapshots(h) == Range(h.snaps)

\* a call with -r on a filesystem that has a child reaches the child too
Reaches(fs, recursive) == recursive /\ Descendants(fs) # {fs}

\* a cached read: the filesystems, the snapshots of a filesystem, a snapshot
\* by name, a property
HostRead ==
    /\ pc = "host" /\ src.exc = "" /\ hist.runs < MaxHostOps
    /\ \/ src' = cache_get_filesystems(src, FALSE)
       \/ \E fs \in HeldFs(src), label \in {None, Str(Label)} :
             src' = get_snapshots(src, fs, label, FALSE).h
       \/ \E o \in HeldSnapshots(src) : src' = get_property(src, o.name, ZFSSNAP_REPL_STATUS).h
       \/ \E fs \in HeldFs(src) : src' = get_property(src, FsName(fs), "readonly").h
    /\ run' = [op |-> "read"]
    /\ hist' = [hist EXCEPT !.runs = @ + 1]
    /\ UNCHANGED <<dst, dir, now, pc>>

\* Filesystem.snapshot at the clock, which has moved on since the last one
HostSnapshot ==
    /\ pc = "host" /\ src.exc = "" /\ hist.runs < MaxHostOps
    /\ \E fs \in HeldFs(src), recursive \in BOOLEAN :
          /\ src' = snapshot(src, fs, Label, recursive, now + 3600, TRUE).h
          /\ hist' = [runs |-> hist.runs + 1, reached |-> hist.reached \/ Reaches(fs, recursive)]
    /\ now' = now + 3600
    /\ run' = [op |-> "snapshot"]
    /\ UNCHANGED <<dst, dir, pc>>

\* Snapshot.destroy of a snapshot the caller holds
HostDestroySnapshot ==
    /\ pc = "host" /\ src.exc = "" /\ hist.runs < MaxHostOps
    /\ \E o \in HeldSnapshots(src), recursive \in BOOLEAN :
          /\ src' = destroy(src, o, recursive, TRUE)
          /\ hist' = [runs |-> hist.runs + 1,
                      reached |-> hist.reached \/ Reaches(o.name.fs, recursive)]
    /\ run' = [op |-> "destroy"]
    /\ UNCHANGED <<dst, dir, now, pc>>

\* Filesystem.destroy of a filesystem the caller holds
HostDestroyFilesystem ==
    /\ pc = "host" /\ src.exc = "" /\ hist.runs < MaxHostOps
    /\ \E fs \in HeldFs(src), recursive \in BOOLEAN :
          /\ src' = Filesystem_destroy(src, fs, recursive, TRUE)
          /\ hist' = [runs |-> hist.runs + 1, reached |-> hist.reached \/ recursive]
    /\ run' = [op |-> "destroy"]
    /\ UNCHANGED <<dst, dir, now, pc>>

\* set_property: the replication status of a snapshot, readonly of the
\* filesystem that has no children
HostSetProperty ==
    /\ pc = "host" /\ src.exc = "" /\ hist.runs < MaxHostOps
    /\ \/ \E o \in HeldSnapshots(src) :
             src' = set_property(src, o.name, ZFSSNAP_REPL_STATUS, Str("success"), TRUE)
       \/ /\ "tank/child" \in HeldFs(src)
          /\ src' = set_property(src, FsName("tank/child"), "readonly", Str("on"), TRUE)
    /\ run' = [op |-> "set_property"]
    /\ hist' = [hist EXCEPT !.runs = @ + 1]
    /\ UNCHANGED <<dst, dir, now, pc>>

\* unset_property of the same
HostUnsetProperty ==
    /\ pc = "host" /\ src.exc = "" /\ hist.runs < MaxHostOps
    /\ \/ \E o \in HeldSnapshots(src) :
             src' = unset_property(src, o.name, ZFSSNAP_REPL_STATUS, TRUE)
       \/ /\ "tank/child" \in HeldFs(src)
          /\ src' = unset_property(src, FsName("tank/child"), "readonly", TRUE)
    /\ run' = [op |-> "unset_property"]
    /\ hist' = [hist EXCEPT !.runs = @ + 1]
    /\ UNCHANGED <<dst, dir, now, pc>>

HostNext ==
    \/ HostRead
    \/ HostSnapshot
    \/ HostDestroySnapshot
    \/ HostDestroyFilesystem
    \/ HostSetProperty
    \/ HostUnsetProperty
SpecHost == HostInit /\ [][HostNext]_vars

\* =============================================================== properties
\* the metadata files in the directory whose stored checksum is not the
\* checksum of their other fields
Corrupt(d) == {st \in DOMAIN d.meta : d.meta[st].checksum # _get_checksum(d.meta[st])}

ZfsGet(z, n, key) == IF n \in DOMAIN z /\ key \in DOMAIN z[n] THEN z[n][key] ELSE ""
\* the snapshots of (fs, label) in a set of datasets, and those marked success
OfLabel(z, fs, label) ==
    {n \in DOMAIN z : IsSnapName(n) /\ n.fs = fs /\ ZfsGet(z, n, ZFSSNAP_LABEL) = label}
Successful(z, fs, label) ==
    {n \in OfLabel(z, fs, label) : ZfsGet(z, n, ZFSSNAP_REPL_STATUS) = "success"}
Newest(S) == CHOOSE n \in S : \A m \in S : strptime(m.snap) <= strptime(n.snap)

RetentionCalled == pc = "done" /\ run.op = "enforce_retention"

\* C3: enforce_retention in replication role, reset false, never destroys the
\* most recent snapshot of (filesystem, label) whose replication status is
\* 'success', whatever the snapshot set and the keep policy.
C3_PinNeverDestroyed ==
    (RetentionCalled /\ run.replication /\ ~run.reset
        /\ Successful(run.before, "tank", Label) # {})
    => Newest(Successful(run.before, "tank", Label)) \in DOMAIN src.zfs

\* C4: after enforce_retention in replication role has returned, no snapshot
\* of (filesystem, label) is left whose replication status is not 'success'.
C4_NoUnreplicatedLeft ==
    (RetentionCalled /\ run.replication /\ src.exc = "")
    => OfLabel(src.zfs, "tank", Label) \subseteq Successful(src.zfs, "tank", Label)

\* C4 witness: the newest snapshot of the label was not 'success', latest = 1
\* selected it, and the call returned with it gone and an older one kept.
C4_Witness ==
    /\ RetentionCalled /\ run.replication /\ ~run.reset /\ src.exc = ""
    /\ run.keep.latest = 1
    /\ OfLabel(run.before, "tank", Label) # {}
    /\ Newest(OfLabel(run.before, "tank", Label)) \notin Successful(run.before, "tank", Label)
    /\ Newest(OfLabel(run.before, "tank", Label)) \notin DOMAIN src.zfs
    /\ Successful(src.zfs, "tank", Label) # {}

\* C1: once a run has marked a source snapshot 'success', the source has a
\* snapshot of the label with status 'success' in every later state, whatever
\* the runs that follow do.
C1_SuccessSurvives ==
    hist.marked => Successful(src.zfs, "tank", Label) # {}

\* the transfer unit of a stamp is in the directory: its metadata file and
\* every segment the file lists
Unit(d, st) ==
    /\ st \in DOMAIN d.meta
    /\ d.meta[st].segments # <<>>
    /\ Range(d.meta[st].segments) \subseteq d.segs

\* C2: a step of send_to_file that leaves a snapshot of the source marked
\* 'success' is the step after the metadata write, and the metadata file and
\* every segment it lists are in the directory when it is taken; a run whose
\* pipeline or metadata write failed takes no such step.
C2_UnitBeforeSuccess ==
    [][run.kind = "send_to_file" =>
          \A n \in Successful(src'.zfs, "tank", Label) \ Successful(src.zfs, "tank", Label) :
              /\ pc = "mark"
              /\ n = run.snapshot.name
              /\ Unit(dir, n.snap) /\ Unit(dir', n.snap)]_vars

\* C2 witness: send_to_file has just marked its snapshot, whose unit is an
\* incremental stream in two segments.
C2_Witness ==
    /\ pc = "retention" /\ run.kind = "send_to_file"
    /\ run.snapshot.name \in Successful(src.zfs, "tank", Label)
    /\ Unit(dir, run.snapshot.name.snap)
    /\ Len(dir.meta[run.snapshot.name.snap].segments) = 2
    /\ dir.meta[run.snapshot.name.snap].depends_on # <<>>

\* ------------------------------------------- properties of the receiving side
\* the unit receive_from_file is about to be called on
AtUnit == pc = "unit" /\ run.k <= Len(run.files)
Cur == run.files[run.k]
\* the destination holds a 'success' snapshot of the label that is not older
\* than the unit
Stale(z, m) ==
    \E n \in Successful(z, "backup", Label) : strptime(n.snap) >= strptime(m.timestamp)
BaseThere(z, m) == m.depends_on = <<>> \/ SnapName("backup", m.depends_on) \in DOMAIN z
AllSegments(d, m) == Range(m.segments) \subseteq d.segs
\* the files of a unit that are in the directory
UnitFiles(d, m) == (Range(m.segments) \cup {MetaName(m.snapshot)}) \cap FileNames(d)
\* what zfssnap sets on the destination: label, version and status of the
\* snapshots, and readonly of the filesystem
Marks(z) ==
    [n \in DOMAIN z |-> <<ZfsGet(z, n, ZFSSNAP_LABEL), ZfsGet(z, n, ZFSSNAP_VERSION),
                          ZfsGet(z, n, ZFSSNAP_REPL_STATUS), ZfsGet(z, n, "readonly")>>]

\* C5: receive_from_file on a unit that is not newer than the destination's
\* latest 'success' snapshot of the label receives nothing and changes nothing
\* on the destination, deletes the metadata file and every segment of the unit
\* that is in the directory, whichever they are, and deletes nothing when it
\* is repeated.
C5_StaleUnitRemoved ==
    [][(AtUnit /\ Stale(dst.zfs, Cur)) =>
          /\ pc' # "receive"
          /\ dst'.zfs = dst.zfs
          /\ FileNames(dir') = FileNames(dir) \ UnitFiles(dir, Cur)
          /\ _cleanup_sync_files(dir', run.src_dir, Cur, {}).d = dir']_vars

\* C6: receive_from_file on a unit that is not stale and whose depends_on
\* names a snapshot the destination filesystem lacks raises
\* ReplicationException before a receive command runs, and the destination
\* and the files of the directory are as they were.
C6_MissingBaseRefused ==
    [][(AtUnit /\ ~Stale(dst.zfs, Cur) /\ ~BaseThere(dst.zfs, Cur)) =>
          /\ pc' = "idle" /\ run'.exc = "ReplicationException"
          /\ dst'.zfs = dst.zfs
          /\ dir' = dir]_vars

\* C6 witness: the run has ended with ReplicationException at a unit whose
\* base is not among the snapshots the destination holds.
C6_Witness ==
    /\ pc = "idle" /\ run.at = "unit" /\ run.exc = "ReplicationException"
    /\ ~BaseThere(dst.zfs, run.files[run.k])
    /\ \E n \in DOMAIN dst.zfs : IsSnapName(n)
    /\ AllSegments(dir, run.files[run.k])

\* C7: receive_from_file on a unit that is not stale, whose base is there and
\* of which a declared segment is not in the directory raises
\* SegmentMissingException before the pipeline is started, and the
\* destination and the files of the directory are as they were.
C7_MissingSegmentRefused ==
    [][(AtUnit /\ ~Stale(dst.zfs, Cur) /\ BaseThere(dst.zfs, Cur) /\ ~AllSegments(dir, Cur)) =>
          /\ pc' # "receive" /\ run'.at = "SegmentMissingException"
          /\ dst'.zfs = dst.zfs
          /\ dir' = dir]_vars

\* C7 witness: SegmentMissingException was raised for a unit of two segments
\* of which one is in the directory, and that one is still there.
C7_Witness ==
    /\ pc = "idle" /\ run.at = "SegmentMissingException"
    /\ Len(run.files[run.k].segments) = 2
    /\ Range(run.files[run.k].segments) \cap dir.segs # {}
    /\ MetaName(run.files[run.k].snapshot) \in FileNames(dir)

\* C8: when unit k of a run raises SegmentMissingException (it is due, its
\* base is there and a segment is not), receive_from_file has returned for every unit before k in timestamp order and the
\* destination holds what they brought, unit k and the later units are
\* neither applied nor deleted, the run ends without an exception and the
\* lock is released.
C8_LaterUnitsWait ==
    [][(AtUnit /\ ~Stale(dst.zfs, Cur) /\ BaseThere(dst.zfs, Cur) /\ ~AllSegments(dir, Cur)) =>
          /\ pc' = "idle" /\ run'.exc = "" /\ run.lock /\ ~run'.lock
          /\ Len(hist.handled) = run.k - 1
          /\ \A j \in 1..(run.k - 1) :
                /\ hist.handled[j][1] = run.files[j].snapshot
                /\ strptime(run.files[j].timestamp) < strptime(Cur.timestamp)
                /\ Stale(dst.zfs, run.files[j])
                /\ hist.handled[j][2] = "applied" => Range(run.files[j].segments) \cap dir.segs = {}
          /\ \A j \in run.k..Len(run.files) :
                UnitFiles(dir', run.files[j]) = UnitFiles(dir, run.files[j])
          /\ dst'.zfs = dst.zfs
          /\ hist' = hist]_vars

\* C8 witness: the unit of T2 was applied, the unit of T3 lacked its segment,
\* and the run ended with the metadata file of T3 in place.
C8_Witness ==
    /\ pc = "idle" /\ run.at = "SegmentMissingException" /\ run.exc = "" /\ ~run.lock
    /\ run.k = 2
    /\ hist.handled = << <<T2, "applied">> >>
    /\ SnapName("backup", T2) \in Successful(dst.zfs, "backup", Label)
    /\ T3 \in DOMAIN dir.meta

C10_FailedReceive ==
    [][(pc = "receive" /\ run'.returncode # 0) =>
          /\ pc' = "idle" /\ run'.exc = "ReplicationException"
          /\ Marks(dst'.zfs) = Marks(dst.zfs)
          /\ dir' = dir
          /\ hist'.handled = hist.handled]_vars

\* C10 witness: the receive of the first of two units failed in a run that
\* was to set readonly; both units are in the directory and readonly is off.
C10_Witness ==
    /\ pc = "idle" /\ run.at = "receive" /\ run.exc = "ReplicationException"
    /\ run.returncode # 0 /\ run.read_only
    /\ run.k = 1 /\ Len(run.files) = 2
    /\ \A j \in 1..2 : UnitFiles(dir, run.files[j])
                          = Range(run.files[j].segments) \cup {MetaName(run.files[j].snapshot)}
    /\ ZfsGet(dst.zfs, FsName("backup"), "readonly") = "off"

\* ------------------------------------------ properties of direct replication
\* the replication statuses of the snapshots of a machine
Statuses(z) ==
    [n \in {x \in DOMAIN z : IsSnapName(x)} |-> ZfsGet(z, n, ZFSSNAP_REPL_STATUS)]

\* C11: when the receive process of the send | receive pipeline of replicate
\* exits non-zero, replicate raises ReplicationException and the policy run
\* ends there: no snapshot of the source or of the destination gets a
\* replication status, readonly of the destination is not touched, and no
\* snapshot is destroyed, retention not being run.
C11_FailedReplicate ==
    [][(pc = "transfer" /\ run.kind = "replicate" /\ hist'.pipe[2] # 0) =>
          /\ pc' = "idle" /\ run'.exc = "ReplicationException"
          /\ src'.zfs = src.zfs
          /\ dst'.zfs = dst.zfs]_vars

\* C11 witness: the pipeline of the second replicate run failed; the source
\* holds the snapshot of the first run, marked, and the one of this run,
\* which has no status.
C11_Witness ==
    /\ pc = "idle" /\ run.kind = "replicate" /\ run.at = "transfer"
    /\ run.exc = "ReplicationException" /\ hist.pipe[2] # 0
    /\ hist.runs = 2
    /\ Successful(src.zfs, "tank", Label) # {}
    /\ \E n \in OfLabel(src.zfs, "tank", Label) :
          /\ ZfsGet(src.zfs, n, ZFSSNAP_REPL_STATUS) = ""
          /\ \A m \in Successful(src.zfs, "tank", Label) : strptime(m.snap) < strptime(n.snap)

\* the snapshots of both states of a step whose status the step changed
Remarked(z, y) == {n \in DOMAIN Statuses(z) \cap DOMAIN Statuses(y) : Statuses(z)[n] # Statuses(y)[n]}

\* C12: when replicate returns, the snapshot it made is marked 'success' on
\* the source and the snapshot of that name is marked 'success' on the
\* destination; the source is marked in an earlier step than the
\* destination, and replicate changes the status of no other snapshot (what
\* zfs receive makes of the statuses the stream carries is the pipeline's).
C12_ReplicateMarks ==
    [][(run.kind = "replicate" /\ pc # "idle") =>
          /\ (pc = "dstmark" /\ pc' = "retention") =>
                /\ ZfsGet(src'.zfs, run.snapshot.name, ZFSSNAP_REPL_STATUS) = "success"
                /\ ZfsGet(dst'.zfs, SnapName("backup", run.snapshot.name.snap),
                          ZFSSNAP_REPL_STATUS) = "success"
          /\ Remarked(src.zfs, src'.zfs) \subseteq {run.snapshot.name}
          /\ pc # "transfer" =>
                /\ Remarked(dst.zfs, dst'.zfs) \subseteq {SnapName("backup", run.snapshot.name.snap)}
                /\ Remarked(dst.zfs, dst'.zfs) # {} =>
                      /\ Remarked(src.zfs, src'.zfs) = {}
                      /\ ZfsGet(src.zfs, run.snapshot.name, ZFSSNAP_REPL_STATUS) = "success"]_vars

\* C12 witness: the second replicate run has returned in a run that set
\* readonly; both its snapshot and the one of the first run are marked on
\* both sides.
C12_Witness ==
    /\ pc = "retention" /\ run.kind = "replicate" /\ run.read_only
    /\ run.base_snapshot # NoSnapshot
    /\ {run.snapshot.name, run.base_snapshot.name} \subseteq Successful(src.zfs, "tank", Label)
    /\ {SnapName("backup", run.snapshot.name.snap), SnapName("backup", run.base_snapshot.name.snap)}
          \subseteq Successful(dst.zfs, "backup", Label)
    /\ ZfsGet(dst.zfs, FsName("backup"), "readonly") = "on"

\* ------------------------------------------------ properties of the pipelines
\* C13: whatever the exit statuses of the two processes of send | receive,
\* send | split and cat | receive, the step raises ReplicationException
\* exactly when the second process exits non-zero; otherwise the run goes on
\* to its next step, also when the first process failed.
C13_DownstreamDecides ==
    [][(pc \in {"transfer", "receive"}) =>
          /\ (pc' = "idle" /\ run'.exc = "ReplicationException") <=> (hist'.pipe[2] # 0)
          /\ (pc' \in {"metadata", "mark", "finish"}) <=> (hist'.pipe[2] = 0)]_vars

\* C13 witness: zfs send failed and split ended well; send_to_file wrote the
\* metadata file of the segments there were and marked the snapshot.
C13_Witness ==
    /\ pc = "retention" /\ run.kind = "send_to_file"
    /\ hist.pipe = <<1, 0>>
    /\ run.snapshot.name \in Successful(src.zfs, "tank", Label)
    /\ Unit(dir, run.snapshot.name.snap)
    /\ run.snapshot.name.snap \in dir.bad

\* ------------------------------------------- properties of the receiver's cleanup
\* the units whose metadata file is in the directory and of which the step
\* removes a file
Cleaned(d, e) == {m \in {d.meta[st] : st \in DOMAIN d.meta} : UnitFiles(e, m) # UnitFiles(d, m)}

\* C14 as the specification states it: the receiver removes a file of a unit
\* only when the snapshot of that unit is on the destination, marked
\* 'success'.
C14_RemovedOnlyWhenApplied ==
    [][\A m \in Cleaned(dir, dir') :
          SnapName("backup", m.snapshot) \in Successful(dst'.zfs, "backup", Label)]_vars

\* C14, amended: the receiver removes a file of a unit only when the
\* destination holds a snapshot of the label marked 'success' that is not
\* older than the unit: the unit's own, which this run or an earlier one
\* marked, or a later one, which makes the unit stale.
C14_RemovedOnlyWhenCovered ==
    [][\A m \in Cleaned(dir, dir') : Stale(dst'.zfs, m)]_vars

\* C14 witness: the run removed the files of the unit of T2 as stale; the
\* destination has no snapshot of T2.
C14_Witness ==
    /\ Len(hist.handled) >= 1 /\ hist.handled[1] = <<T2, "stale">>
    /\ T2 \notin DOMAIN dir.meta
    /\ SnapName("backup", T2) \notin DOMAIN dst.zfs
    /\ Successful(dst.zfs, "backup", Label) # {}

\* C15: once receive_from_file has applied a unit and the zfs commands that
\* label and mark its snapshot and enforce readonly have succeeded, it
\* returns normally whatever the deletion of the files meets: the mark
\* stays and the run goes on to the next unit.
C15_CleanupNeverRaises ==
    [][(pc = "finish" /\ run'.exc # "CalledProcessError") =>
          /\ pc' = "unit" /\ run'.k = run.k + 1 /\ run'.exc = ""
          /\ SnapName("backup", Cur.snapshot) \in Successful(dst'.zfs, "backup", Label)]_vars

\* the snapshots of a host marked 'success'
SuccessOn(z) == {n \in DOMAIN z : IsSnapName(n) /\ ZfsGet(z, n, ZFSSNAP_REPL_STATUS) = "success"}
\* a send_to_file run and then a receive_from_file run, the only runs, have
\* both come to their end without an exception, no zfs send and no zfs
\* receive failed, and the receive run applied the unit
SentThenReceived ==
    /\ pc = "idle" /\ hist.runs = 2
    /\ hist.ended = <<"send_to_file", "receive_from_file">>
    /\ dir.bad = {} /\ hist.pipe = <<0, 0>>
    /\ Len(hist.handled) = 1 /\ hist.handled[1][2] = "applied"

\* C16: from a source with no snapshot marked 'success' and keep latest 1,
\* after one send_to_file run and then one receive_from_file run without a
\* failure, exactly one snapshot is marked 'success' on the source, exactly
\* one on the destination, the two have the same snapshot name, and no
\* segment file and no metadata file is left in the directory.
C16_OneRoundTrip ==
    SentThenReceived =>
        /\ Cardinality(SuccessOn(src.zfs)) = 1
        /\ Cardinality(SuccessOn(dst.zfs)) = 1
        /\ {n.snap : n \in SuccessOn(src.zfs)} = {n.snap : n \in SuccessOn(dst.zfs)}
        /\ FileNames(dir) = {}

\* the same round trip holds when the directory of the receive policy is an
\* absolute path
C16_OneRoundTripAbsolute ==
    (SentThenReceived /\ run.src_dir.abs) =>
        /\ Cardinality(SuccessOn(src.zfs)) = 1
        /\ Cardinality(SuccessOn(dst.zfs)) = 1
        /\ {n.snap : n \in SuccessOn(src.zfs)} = {n.snap : n \in SuccessOn(dst.zfs)}
        /\ FileNames(dir) = {}

\* C19: after enforce_retention with reset true, no zfs destroy failing, no
\* snapshot of the filesystem with the label is left and no exception is
\* raised, whatever the keep policy and whether retention runs in plain or
\* in replication role.
C19_ResetDestroysAll ==
    (RetentionCalled /\ run.reset) =>
        /\ src.exc = ""
        /\ OfLabel(src.zfs, "tank", Label) = {}

\* C19 witness: a reset in replication role with keep latest 1 destroyed a
\* snapshot marked 'success', the newest of the label
C19_Witness ==
    /\ RetentionCalled /\ run.reset /\ run.replication /\ run.keep.latest = 1
    /\ Successful(run.before, "tank", Label) # {}
    /\ Newest(OfLabel(run.before, "tank", Label)) \in Successful(run.before, "tank", Label)
    /\ OfLabel(src.zfs, "tank", Label) = {}

\* the hour slot of the given number that lies before the hour of the clock,
\* and the newest snapshot of each non-empty slot among the given numbers
HourOfClock == now - (now % 3600)
InSlot(n, i) ==
    /\ HourOfClock - i * 3600 <= strptime(n.snap)
    /\ strptime(n.snap) < HourOfClock - i * 3600 + 3600
NewestOfSlots(z, I) ==
    {Newest({n \in OfLabel(z, "tank", Label) : InSlot(n, i)}) :
        i \in {j \in I : \E n \in OfLabel(z, "tank", Label) : InSlot(n, j)}}
HourlyRetained ==
    /\ RetentionCalled /\ run.keep = KeepHourly /\ ~run.reset /\ ~run.replication
    /\ src.exc = ""

\* C20 as the spec states it: with only hourly = 2, plain role and no reset,
\* the survivors are the newest snapshot of each of the two most recent
\* completed hour slots, the hour before the clock's hour and the one before
\* that; a snapshot stamped hh:00:00 is of the slot that starts at hh:00.
C20_CompletedSlots ==
    HourlyRetained => OfLabel(src.zfs, "tank", Label) = NewestOfSlots(run.before, {1, 2})

\* C20 as the code has it: with only hourly = 2, plain role and no reset, the
\* survivors are the newest snapshot of each of the two most recent hour
\* slots, the running hour of the clock and the hour before it; a snapshot
\* stamped hh:00:00 is of the slot that starts at hh:00.
C20_CurrentSlot ==
    HourlyRetained => OfLabel(src.zfs, "tank", Label) = NewestOfSlots(run.before, {0, 1})

\* C20 witness: at 04:30 the snapshot of 04:10 survives for the running
\* hour before that of 04:00:00, the snapshot of 03:00:00 survives alone in
\* its slot, and that of 02:59:59 is destroyed
C20_Witness ==
    /\ HourlyRetained /\ now = strptime(<<2017, 3, 1, 4, 30, 0>>)
    /\ {SnapName("tank", <<2017, 3, 1, 4, 0, 0>>), SnapName("tank", <<2017, 3, 1, 2, 59, 59>>)}
           \subseteq DOMAIN run.before
    /\ OfLabel(src.zfs, "tank", Label) = {SnapName("tank", <<2017, 3, 1, 4, 10, 0>>),
                                         SnapName("tank", <<2017, 3, 1, 3, 0, 0>>)}

\* C17: of two runs that share a lock file at most one holds the lock at a
\* time; a run changes the machine only while it holds the lock, between
\* the return of _aquire_lock and the call of _release_lock; and once the
\* other run has changed the machine a run changes it no more.
C17_Serialized ==
    /\ [](Cardinality(dir.holders) <= 1)
    /\ [][\A p \in Procs : hist'.muts[p] # hist.muts[p] =>
              /\ run[p].locked /\ p \in dir.holders /\ p \in dir'.holders
              /\ \A q \in Procs \ {p} : ~run[q].locked]_vars
    /\ [](\A i, j \in DOMAIN hist.order : i # j => hist.order[i] # hist.order[j])

\* C17 witness: both runs have changed the machine, one after the other,
\* and the second had to wait for the lock
C17_Witness ==
    /\ Len(hist.order) = 2
    /\ \A p \in Procs : hist.muts[p] > 0
    /\ run[hist.order[2]].attempts > 0

\* C18: a run leaves _aquire_lock: it is granted the lock or, after 20
\* attempts that failed, of a budget of 60 that an attempt takes 3 from,
\* ZFSSnapException is raised; a run that it is raised in never holds the
\* lock and changes nothing on the machine.
C18_AcquisitionEnds ==
    /\ [](\A p \in Procs :
            /\ run[p].attempts <= 20
            /\ pc[p] = "lock" => run[p].timeout = LockTimeout - LockWait * run[p].attempts
            /\ run[p].exc = "ZFSSnapException" =>
                  /\ run[p].attempts = 20 /\ ~run[p].locked
                  /\ p \notin dir.holders /\ hist.muts[p] = 0)
    /\ \A p \in Procs :
          (pc[p] = "lock") ~> (run[p].locked \/ run[p].exc = "ZFSSnapException")

\* C18 witness: a run has given up after 20 attempts while the other run
\* held the lock, and has ended
C18_Witness ==
    \E p \in Procs :
       /\ pc[p] = "done" /\ run[p].exc = "ZFSSnapException" /\ run[p].attempts = 20
       /\ dir.holders = Procs \ {p}

\* the clock read as a calendar date, and the instants a calendar names
Civil(dt) == strftime(dt)
\* the days since Monday and since Sunday of the day of dt (1970-01-01 was
\* a Thursday)
SinceMonday(dt) == ((dt \div 86400) + 3) % 7
SinceSunday(dt) == ((dt \div 86400) + 4) % 7
Midnight(dt) == strptime(<<Civil(dt)[1], Civil(dt)[2], Civil(dt)[3], 0, 0, 0>>)
\* the start of the bucket of each granularity that dt lies in; a week
\* starts on a Monday or on a Sunday
BucketStarts(dt, kind) ==
    CASE kind = "hourly" -> {strptime(<<Civil(dt)[1], Civil(dt)[2], Civil(dt)[3], Civil(dt)[4], 0, 0>>)}
      [] kind = "daily" -> {Midnight(dt)}
      [] kind = "weekly" -> {Midnight(dt) - 86400 * SinceMonday(dt),
                             Midnight(dt) - 86400 * SinceSunday(dt)}
      [] kind = "monthly" -> {strptime(<<Civil(dt)[1], Civil(dt)[2], 1, 0, 0, 0>>)}
      [] kind = "yearly" -> {strptime(<<Civil(dt)[1], 1, 1, 0, 0, 0>>)}

\* C21: the slots of each interval start at the clock truncated to the
\* granularity of the interval: the top of the hour, midnight, the start of
\* the week the clock is in, the first of the month, January 1st.
C21_SlotStarts ==
    RetentionCalled => \A kind \in Intervals : interval_start(now, kind) \in BucketStarts(now, kind)

\* all intervals but the weekly one start where C21 says
C21_SlotStartsButWeekly ==
    RetentionCalled =>
        \A kind \in Intervals \ {"weekly"} : interval_start(now, kind) \in BucketStarts(now, kind)

\* the n newest of the snapshots B
LatestOf(B, n) ==
    {x \in B : Cardinality({y \in B : strptime(y.snap) > strptime(x.snap)}) < n}
\* the newest snapshot of B in each of the n slots of the kind that step
\* back from start, a slot without a snapshot giving nothing
SlotKept(B, start, kind, n) ==
    {Newest({x \in B : /\ interval_end(start, kind, i) <= strptime(x.snap)
                        /\ strptime(x.snap) < plus_delta(interval_end(start, kind, i), kind)}) :
        i \in {j \in 0..(n - 1) :
                 \E x \in B : /\ interval_end(start, kind, j) <= strptime(x.snap)
                               /\ strptime(x.snap) < plus_delta(interval_end(start, kind, j), kind)}}
\* the week starts of the two conventions
WeekStart(dt, w) ==
    IF w = "monday" THEN Midnight(dt) - 86400 * SinceMonday(dt)
    ELSE Midnight(dt) - 86400 * SinceSunday(dt)
\* the union the keep policy names, the week starting as w says
KeptBySpec(B, keep, w) ==
    LatestOf(B, keep.latest)
    \cup UNION {SlotKept(B, IF kind = "weekly" THEN WeekStart(now, w)
                            ELSE CHOOSE t \in BucketStarts(now, kind) : TRUE, kind, keep[kind]) :
                   kind \in Intervals}
\* the same union, the slots of each interval starting where the code starts them
KeptByCode(B, keep) ==
    LatestOf(B, keep.latest)
    \cup UNION {SlotKept(B, interval_start(now, kind), kind, keep[kind]) : kind \in Intervals}
PlainRetained ==
    /\ RetentionCalled /\ ~run.reset /\ ~run.replication

\* C22: after plain enforce_retention without reset the snapshots of the
\* filesystem and label that are left are exactly the latest N and, for
\* each interval kept, the newest snapshot of each of N consecutive slots
\* that step back from the truncated clock; all others are destroyed.
C22_SurvivorsAreUnion ==
    PlainRetained =>
        /\ src.exc = ""
        /\ \E w \in {"monday", "sunday"} :
              OfLabel(src.zfs, "tank", Label)
                  = KeptBySpec(OfLabel(run.before, "tank", Label), run.keep, w)

\* the survivors are that union when the weekly slots start at midnight of
\* the day of the clock
C22_SurvivorsAreUnionOfCodeSlots ==
    PlainRetained =>
        /\ src.exc = ""
        /\ OfLabel(src.zfs, "tank", Label) = KeptByCode(OfLabel(run.before, "tank", Label), run.keep)
        /\ \A kind \in Intervals :
              Cardinality(SlotKept(OfLabel(run.before, "tank", Label), interval_start(now, kind),
                                   kind, run.keep[kind])) <= run.keep[kind]

\* what enforce_retention leaves of the machine when it is called on the
\* Host h, and what it leaves when the same call is made on a Host that was
\* just built over the same datasets
LeftBy(h, keep, reset, replication) ==
    enforce_retention(h, "tank", keep, Str(Label), TRUE, reset, replication, now, 0).zfs
LeftByFresh(h, keep, reset, replication) ==
    LeftBy(cache_get_filesystems(NewHost(h.zfs), FALSE), keep, reset, replication)

OfFs(z, fs) == {n \in DOMAIN z : IsSnapName(n) /\ n.fs = fs}

\* C24: with a base name given, get_base_snapshot returns the source
\* snapshot of that name or raises ReplicationException when there is
\* none; with no name given it returns the newest snapshot of the label
\* that is marked 'success', or none; and the metadata unit written names
\* the base in depends_on, which is unset when there is no base.
C24_BaseSelection ==
    [][/\ (pc = "base" /\ run.base # <<>> /\ SnapName("tank", run.base) \in OfFs(src.zfs, "tank")) =>
             /\ pc' = "snapshot" /\ run'.base_snapshot.name = SnapName("tank", run.base)
       /\ (pc = "base" /\ run.base # <<>> /\ SnapName("tank", run.base) \notin OfFs(src.zfs, "tank")) =>
             /\ pc' = "idle" /\ run'.exc = "ReplicationException"
       /\ (pc = "base" /\ run.base = <<>> /\ Successful(src.zfs, "tank", Label) # {}) =>
             /\ pc' = "snapshot"
             /\ run'.base_snapshot.name = Newest(Successful(src.zfs, "tank", Label))
       /\ (pc = "base" /\ run.base = <<>> /\ Successful(src.zfs, "tank", Label) = {}) =>
             /\ pc' = "snapshot" /\ run'.base_snapshot = NoSnapshot
       /\ (pc = "metadata" /\ pc' = "mark") =>
             dir'.meta[run.snapshot.name.snap].depends_on
                 = IF run.base_snapshot = NoSnapshot THEN <<>> ELSE run.base_snapshot.name.snap]_vars

\* C24 witness: in a second run with no base named the unit written depends
\* on the snapshot the first run marked
C24_Witness ==
    /\ pc = "mark" /\ run.kind = "send_to_file" /\ run.base = <<>> /\ hist.runs = 2
    /\ run.base_snapshot # NoSnapshot
    /\ run.snapshot.name.snap \in DOMAIN dir.meta
    /\ dir.meta[run.snapshot.name.snap].depends_on = run.base_snapshot.name.snap
    /\ run.base_snapshot.name \in Successful(src.zfs, "tank", Label)

\* the instant of a snapshot a stale check found, before every instant when
\* it found none
FoundAt(o) == IF o = NoSnapshot THEN 0 ELSE datetime(o)
InRecvRun == pc \in {"unit", "receive", "finish"}

\* C25: in a receive run the units are handed to receive_from_file in
\* ascending order of their timestamps, one after the other and each once;
\* the stale check of a unit finds a 'success' snapshot that is not older
\* than any unit the run has applied before, and never an older one than
\* the stale check before it found.
C25_AscendingOnce ==
    /\ [](InRecvRun =>
            /\ \A i, j \in 1..Len(run.files) :
                  i < j => strptime(run.files[i].timestamp) < strptime(run.files[j].timestamp)
            /\ Len(hist.handled) = run.k - 1
            /\ \A j \in 1..Len(hist.handled) : hist.handled[j][1] = run.files[j].snapshot)
    /\ [][(AtUnit /\ pc' \in {"unit", "receive"}) =>
              /\ FoundAt(run'.previous_snapshot) >= FoundAt(run.previous_snapshot)
              /\ run'.previous_snapshot # NoSnapshot =>
                    run'.previous_snapshot.name \in Successful(dst.zfs, "backup", Label)
              /\ \A j \in 1..(run.k - 1) :
                    hist.handled[j][2] = "applied" =>
                        FoundAt(run'.previous_snapshot) >= strptime(run.files[j].timestamp)]_vars

\* C25 witness: the unit of T2 was applied and marked, and the stale check
\* of the unit of T3 has found the snapshot of T2
C25_Witness ==
    /\ pc = "receive" /\ run.k = 2
    /\ hist.handled = <<<<T2, "applied">>>>
    /\ run.files[2].snapshot = T3
    /\ run.previous_snapshot # NoSnapshot
    /\ run.previous_snapshot.name = SnapName("backup", T2)

\* the units in the directory that are of another label than the policy's
Others(d) == {st \in DOMAIN d.meta : d.meta[st].label # Label}

\* C26: a unit of another label in the directory is skipped: it is not among
\* the units of the run, its metadata file and the segment files it names
\* are neither deleted nor changed, and a scan that raises nothing yields
\* every unit of the policy's label.
C26_OtherLabelSkipped ==
    /\ [](InRecvRun =>
            /\ \A j \in 1..Len(run.files) : run.files[j].snapshot \notin Others(dir)
            /\ \A j \in 1..Len(hist.handled) : hist.handled[j][1] \notin Others(dir))
    /\ [][\A st \in Others(dir) :
              /\ st \in DOMAIN dir'.meta /\ dir'.meta[st] = dir.meta[st]
              /\ Range(dir.meta[st].segments) \cap dir.segs \subseteq dir'.segs]_vars
    /\ [][(pc = "idle" /\ hist'.runs # hist.runs /\ run'.exc = "") =>
              {run'.files[j].snapshot : j \in 1..Len(run'.files)} = DOMAIN dir.meta \ Others(dir)]_vars

\* C26 witness: a run has applied the unit of T3 and come to its end while
\* the unit of T2, of another label, lies in the directory with a segment
C26_Witness ==
    /\ pc = "idle" /\ run.at = "end"
    /\ hist.handled = <<<<T3, "applied">>>>
    /\ Others(dir) = {T2}
    /\ Range(dir.meta[T2].segments) \cap dir.segs # {}

\* C27: MetadataFile.read of a file whose stored checksum differs from the
\* checksum of its other fields raises MetadataFileException and sets no
\* field; the scan of a receive run that meets such a file raises it too
\* (unless scandir lists a unit of a newer version first, which raises
\* ReplicationException), the run has no unit and applies nothing to the
\* destination.
C27_ChecksumVerified ==
    /\ [](\A st \in Corrupt(dir), src_dir \in SrcDirs :
            MetadataFile_read(path_join(src_dir, Path(FALSE, <<MetaName(st)>>)), dir.meta[st])
                = [exc |-> "MetadataFileException", m |-> <<>>])
    /\ [][(pc = "idle" /\ hist'.runs # hist.runs /\ Corrupt(dir) # {}) =>
              /\ pc' = "idle" /\ run'.files = <<>>
              /\ run'.exc \in {"MetadataFileException"}
                                \cup (IF \E st \in DOMAIN dir.meta \ Corrupt(dir) :
                                            /\ dir.meta[st].label = Label
                                            /\ dir.meta[st].version = "3.10.0"
                                      THEN {"ReplicationException"} ELSE {})]_vars
    /\ [][Corrupt(dir) # {} => (dst'.zfs = dst.zfs /\ dir' = dir)]_vars

\* C27 witness: a run has met the unit of T3 with an altered base, a
\* segment of it being there, and has ended at its scan
C27_Witness ==
    /\ pc = "idle" /\ hist.runs = 1 /\ run.at = "scan" /\ run.exc = "MetadataFileException"
    /\ T3 \in Corrupt(dir) /\ dir.meta[T3].depends_on = T1
    /\ Range(dir.meta[T3].segments) \subseteq dir.segs
    /\ FsName("backup") \in DOMAIN dst.zfs /\ SnapName("backup", T1) \in DOMAIN dst.zfs

\* a value is unset or empty
Unset(v) == v = None \/ v = Str("") \/ v = List(<<>>)

\* C28: MetadataFile.write raises MetadataFileException and leaves the
\* directory as it was when any of version, timestamp, label, snapshot or
\* segments is unset or empty; with the five set it writes the file, with
\* depends_on set or not.
C28_WriteNeedsFive ==
    [][run'.op = "write" =>
          IF \E k \in Attrs \ {"depends_on"} : Unset(run.self[k])
          THEN run'.exc = "MetadataFileException" /\ dir' = dir
          ELSE /\ run'.exc = ""
               /\ MetaPath \in DOMAIN dir'.meta
               /\ \A k \in Attrs : dir'.meta[MetaPath][k] = json_dumps(run.self[k])]_vars

\* C28 witness: the write of an object that has all but its timestamp, its
\* base too, has been refused, and there is no file
C28_Witness ==
    /\ run.op = "write" /\ run.exc = "MetadataFileException"
    /\ run.self.timestamp = None /\ run.self.depends_on = Strf(NameFormat, T2)
    /\ \A k \in Attrs \ {"timestamp"} : ~Unset(run.self[k])
    /\ MetaPath \notin DOMAIN dir.meta

\* C29: what write has written of an object, read into a fresh object,
\* passes the checksum and gives the label, snapshot, version, timestamp,
\* depends_on and segments of the object.
C29_RoundTrip ==
    /\ Let(write(run.self, NoDir), LAMBDA w :
           w.exc = "" => read(NewMetadataFile, w.d) = [exc |-> "", self |-> run.self])
    /\ (run.op = "read" /\ write(run.self, NoDir) = [exc |-> "", d |-> dir]) =>
           (run.exc = "" /\ \A k \in Attrs : run.fresh[k] = run.self[k])

\* C29 witness: an object of two segments and no base has been written and
\* read back
C29_Witness ==
    /\ run.op = "read" /\ run.exc = ""
    /\ write(run.self, NoDir) = [exc |-> "", d |-> dir]
    /\ run.self.depends_on = None /\ Len(run.self.segments[2]) = 2
    /\ run.fresh.label = Str(Label)

\* what the cached reads of a host give: the filesystems, per filesystem the
\* names of its snapshots, of those of the label, and the snapshot found by
\* each name, per dataset its properties, and the exception a read ends with
CachedReads(h) ==
    [filesystems |-> Let(cache_get_filesystems(h, FALSE), LAMBDA h1 : <<h1.exc, h1.fss>>),
     snapshots |->
        [fs \in {n.fs : n \in {m \in DOMAIN h.zfs : ~IsSnapName(m)}} |->
            [label \in {None, Str(Label)} |->
                Let(get_snapshots(h, fs, label, FALSE), LAMBDA r :
                    <<r.h.exc, [i \in 1..Len(r.out) |-> r.out[i].name]>>)]],
     snapshot |->
        [n \in {m \in DOMAIN h.zfs : IsSnapName(m)} |->
            Let(get_snapshot(h, n.fs, n.snap, FALSE), LAMBDA g : <<g.h.exc, g.o.name>>)],
     property |->
        [n \in DOMAIN h.zfs |->
            [key \in {ZFSSNAP_LABEL, ZFSSNAP_REPL_STATUS, "readonly"} |->
                Let(get_property(h, n, key), LAMBDA g : <<g.h.exc, g.v>>)]]]

\* C30: in a run of snapshot, destroy, set_property and unset_property,
\* recursive or not, every cached read of the filesystems, of the snapshots
\* of a filesystem, of a snapshot by name and of a property gives what it
\* gives after a refresh of the whole cache.
C30_CachedReadsAreFresh ==
    (pc = "host" /\ src.exc = "") => CachedReads(src) = CachedReads(cache_refresh(src))

\* the same of the runs whose snapshot and destroy calls were not recursive
\* ones that reached a child
C30_CachedReadsAreFreshOfOwn ==
    (pc = "host" /\ src.exc = "" /\ ~hist.reached) =>
        CachedReads(src) = CachedReads(cache_refresh(src))

\* C31: of the runs that share the lock file and snapshot tank with one
\* label, none creates a snapshot in a second of which tank has a snapshot
\* already, whenever the runs were started and however long one waited.
C31_NoSameSecond ==
    [][\A p \in Procs : (pc[p] = "snapshot" /\ pc'[p] # "snapshot") =>
            SnapName("tank", strftime(now)) \notin DOMAIN src.zfs]_vars

\* the same of a run that was started after the other runs had ended
C31_NoSameSecondAfterEnd ==
    [][\A p \in Procs : (pc[p] = "snapshot" /\ pc'[p] # "snapshot" /\ run[p].after) =>
            SnapName("tank", strftime(now)) \notin DOMAIN src.zfs]_vars

\* the readonly property of the destination filesystem
ReadOnlyOf(z) == ZfsGet(z, FsName("backup"), "readonly")

\* the Host on which replicate (at dstmark) and receive_from_file (at
\* finish) call _enforce_read_only, the commands before it having succeeded
EnforcedOn ==
    IF pc = "dstmark"
    THEN Let(get_snapshot(dst, "backup", run.snapshot.name.snap, TRUE), LAMBDA g :
             IF g.o = NoSnapshot THEN Raise(g.h, "AttributeError")
             ELSE set_property(g.h, g.o.name, ZFSSNAP_REPL_STATUS,
                               get_property(src, run.snapshot.name, ZFSSNAP_REPL_STATUS).v, TRUE))
    ELSE Let(SnapName("backup", run.files[run.k].snapshot), LAMBDA name :
         Let(cache_add_property(dst, name, "type", Str("snapshot")), LAMBDA h0 :
         Let(set_property(h0, name, ZFSSNAP_LABEL, Str(run.files[run.k].label), TRUE), LAMBDA h1 :
         Let(set_property(h1, name, ZFSSNAP_VERSION, Str(run.files[run.k].version), TRUE),
             LAMBDA h2 : set_property(h2, name, ZFSSNAP_REPL_STATUS, Str("success"), TRUE)))))

\* C32: a replicate or receive_from_file that has succeeded leaves readonly
\* of the destination filesystem 'on' when read_only was asked for and not
\* 'on' when it was not; when readonly is as asked for already no zfs
\* command is run for it (the call succeeds though zfs would fail); and
\* readonly changes in no other step, so not in a transfer that fails.
C32_ReadOnlyEnforced ==
    /\ [][((pc = "dstmark" /\ pc' = "retention") \/ (pc = "finish" /\ pc' = "unit")) =>
              ((ReadOnlyOf(dst'.zfs) = "on") <=> run.read_only)]_vars
    /\ []((pc \in {"dstmark", "finish"} /\ EnforcedOn.exc = ""
              /\ ((ReadOnlyOf(dst.zfs) = "on") <=> run.read_only)) =>
             Let(_enforce_read_only(EnforcedOn, "backup", run.read_only, FALSE), LAMBDA h :
                 h.exc = "" /\ h.zfs = EnforcedOn.zfs))
    /\ [][(/\ FsName("backup") \in DOMAIN dst.zfs /\ FsName("backup") \in DOMAIN dst'.zfs
           /\ ReadOnlyOf(dst'.zfs) # ReadOnlyOf(dst.zfs)) =>
              /\ pc \in {"dstmark", "finish"}
              /\ (ReadOnlyOf(dst'.zfs) = "on") <=> run.read_only]_vars

\* C32 witness: a replicate that was to set readonly has found it 'off', has
\* set it and goes on to its retention
C32_Witness ==
    /\ pc = "retention" /\ run.kind = "replicate" /\ run.read_only
    /\ ReadOnlyOf(dst.zfs) = "on"
    /\ SnapName("backup", run.snapshot.name.snap) \in Successful(dst.zfs, "backup", Label)

\* the base a run with no base named is to select on a source: the newest
\* snapshot of the label that is marked 'success', if there is one
BaseOn(z) ==
    IF Successful(z, "tank", Label) = {} THEN NoSnapshot.name
    ELSE Newest(Successful(z, "tank", Label))

\* C33: the base a replicate or send_to_file run selects is the newest
\* 'success' snapshot the source has when the run holds the lock, also when
\* another run of the policy has gone through while the run waited for it.
C33_BaseAsUnderLock ==
    [][(pc = "base" /\ pc' = "snapshot" /\ run.base = <<>>) =>
            run'.base_snapshot.name = BaseOn(src.zfs)]_vars

\* the same of the runs that got the lock without a wait
C33_BaseOfRunThatDidNotWait ==
    [][(pc = "base" /\ pc' = "snapshot" /\ run.base = <<>> /\ ~run.waited) =>
            run'.base_snapshot.name = BaseOn(src.zfs)]_vars

\* the runs that came to their end are n send_to_file runs, and no other
\* run was started before them or between them
ChainOf(n) ==
    /\ n >= 1 /\ Len(hist.ended) >= n
    /\ \A i \in 1..n : hist.ended[i] = "send_to_file"

\* the unit a unit of the directory is to depend on: the newest older one
PreviousUnit(st) ==
    Let({x \in DOMAIN dir.meta : strptime(x) < strptime(st)}, LAMBDA older :
        IF older = {} THEN <<>>
        ELSE CHOOSE x \in older : \A y \in older : strptime(y) <= strptime(x))

\* a receive run that was started after a chain of send_to_file runs
ChainReceived ==
    /\ "files" \in DOMAIN run
    /\ hist.runs = MaxChain
    /\ \/ ChainOf(MaxChain - 1) /\ Len(hist.ended) = MaxChain - 1
       \/ ChainOf(MaxChain - 1) /\ hist.ended[MaxChain] = "receive_from_file"

\* C34: send_to_file runs with no base named that follow each other and end
\* well, whatever their keep policies, leave one unit each, with stamps that
\* differ: the oldest depends on nothing and every other one on the unit
\* before it. A receive run on these units raises no ReplicationException
\* for a base the destination lacks, and when it comes to its end it has
\* applied every unit, oldest first, and the destination's latest 'success'
\* snapshot is that of the newest unit, the source's latest 'success' one.
C34_ChainOfUnits ==
    /\ (pc = "idle" /\ ChainOf(hist.runs) /\ Len(hist.ended) = hist.runs) =>
          /\ Cardinality(DOMAIN dir.meta) = hist.runs
          /\ \A st \in DOMAIN dir.meta : dir.meta[st].depends_on = PreviousUnit(st)
    /\ ChainReceived => ~(run.exc = "ReplicationException" /\ run.at = "unit")
    /\ (ChainReceived /\ pc = "idle" /\ run.at = "end") =>
          /\ Len(hist.handled) = MaxChain - 1
          /\ \A i \in 1..Len(hist.handled) : hist.handled[i][2] = "applied"
          /\ \A i, j \in 1..Len(hist.handled) :
                i < j => strptime(hist.handled[i][1]) < strptime(hist.handled[j][1])
          /\ Successful(dst.zfs, "backup", Label) # {}
          /\ Newest(Successful(dst.zfs, "backup", Label)).snap
                = hist.handled[Len(hist.handled)][1]
          /\ Newest(Successful(src.zfs, "tank", Label)).snap
                = hist.handled[Len(hist.handled)][1]

\* a receive run has applied the units of a chain of send_to_file runs
C34_Witness ==
    /\ ChainReceived /\ pc = "idle" /\ run.at = "end" /\ run.exc = ""
    /\ Len(hist.handled) = MaxChain - 1
    /\ dir.meta = NoDir.meta

\* C35: a snapshot policy run that is not a reset and whose keep policy has
\* a value above 0 does not destroy the snapshot it has made, whatever the
\* keep policy and whatever the clock shows when retention reads it.
C35_OwnSnapshotKept ==
    [][(pc = "retention" /\ pc' = "done") => run.snapshot.name \in DOMAIN src'.zfs]_vars

\* the same of the runs whose retention reads the clock in the slots the
\* snapshot was made in: no interval that is kept has begun since
C35_OwnSnapshotKeptInItsSlot ==
    [][(/\ pc = "retention" /\ pc' = "done"
        /\ \/ run.keep.latest > 0
           \/ \E kind \in Intervals :
                 run.keep[kind] > 0 /\ interval_start(now, kind) <= run.taken)
          => run.snapshot.name \in DOMAIN src'.zfs]_vars

\* the segment file is named by a metadata file of the directory
Listed(d, seg) == \E st \in DOMAIN d.meta : seg \in Range(d.meta[st].segments)

\* C36: when a send_to_file run has come to its end, by its last step or by
\* an exception at any step, every segment file it has created is listed in
\* a metadata file of the directory.
C36_SegmentsListed ==
    (pc = "idle" /\ run.kind = "send_to_file") => \A seg \in dir.segs : Listed(dir, seg)

\* the same of the runs that got as far as the marking of the snapshot
C36_SegmentsListedOnceWritten ==
    [][(pc \in {"mark", "retention"} /\ run.kind = "send_to_file" /\ pc' = "idle"
        /\ \A seg \in dir.segs \ Range(run.segments) : Listed(dir, seg))
          => \A seg \in dir'.segs : Listed(dir', seg)]_vars

\* C37: enforce_retention of a filesystem and a label, not recursive,
\* destroys no snapshot but those of that very filesystem that carry the
\* label; the snapshots of its descendant, those of another label and those
\* of no label stay and keep their properties, in either role and on a reset.
C37_OnlyOwnLabelDestroyed ==
    RetentionCalled =>
        /\ \A n \in DOMAIN run.before \ DOMAIN src.zfs :
              IsSnapName(n) /\ n.fs = "tank" /\ ZfsGet(run.before, n, ZFSSNAP_LABEL) = Label
        /\ \A n \in DOMAIN run.before \cap DOMAIN src.zfs : src.zfs[n] = run.before[n]
        /\ DOMAIN src.zfs \subseteq DOMAIN run.before

\* a snapshot of the label has been destroyed while the descendant's
\* snapshot of the same name and a snapshot of another label are there
C37_Witness ==
    /\ RetentionCalled /\ ~run.recursive
    /\ \E n \in DOMAIN run.before \ DOMAIN src.zfs :
          SnapName("tank/child", n.snap) \in DOMAIN src.zfs
    /\ \E n \in DOMAIN src.zfs :
          IsSnapName(n) /\ n.fs = "tank" /\ ZfsGet(src.zfs, n, ZFSSNAP_LABEL) = "other"

\* a base is named that the source does not have
MissingBaseNamed ==
    pc = "base" /\ run.base # <<>> /\ SnapName("tank", run.base) \notin DOMAIN src.zfs

\* the run ends in ReplicationException with the source, the destination and
\* the directory as they were, retention not run
RefusedUntouched ==
    /\ pc' = "idle" /\ run'.exc = "ReplicationException" /\ run'.at = "base"
    /\ src'.zfs = src.zfs /\ dst'.zfs = dst.zfs /\ dir' = dir

\* C38: replicate and send_to_file given the name of a base that the source
\* does not have raise ReplicationException before anything is changed: no
\* snapshot is made, no property set, no pipeline run, no file written and
\* no retention run.
C38_MissingBaseRefused ==
    [][(MissingBaseNamed /\ pc' # pc) => RefusedUntouched]_vars

\* the same of the runs that got the lock without a wait
C38_MissingBaseRefusedUnlessWaited ==
    [][(MissingBaseNamed /\ pc' # pc /\ ~run.waited) => RefusedUntouched]_vars

\* the snapshots made under the label that was read
MadeUnder(label) == {m.name : m \in {x \in run.made : x.label = label}}

\* C39: whatever label a snapshot was made under, a label of digits
\* included, get_snapshots of that label returns the snapshot, from the
\* properties cached when it was made and after a refresh of the cache; and
\* the newest of the label's snapshots marked 'success' is found as such.
C39_ListedUnderItsLabel ==
    (run.op = "read" /\ src.exc = "") =>
        /\ MadeUnder(run.label) \subseteq {run.out[i].name : i \in 1..Len(run.out)}
        /\ Successful(src.zfs, "tank", run.label) # {} =>
              run.pin.name = Newest(Successful(src.zfs, "tank", run.label))

\* the same of the labels that int() does not parse
C39_ListedUnderItsLabelOfWords ==
    (run.op = "read" /\ src.exc = "" /\ run.label \notin IntLiterals) =>
        /\ MadeUnder(run.label) \subseteq {run.out[i].name : i \in 1..Len(run.out)}
        /\ Successful(src.zfs, "tank", run.label) # {} =>
              run.pin.name = Newest(Successful(src.zfs, "tank", run.label))

\* a lookup of the label or of the status of a snapshot of tank misses the
\* cache during the call, which has the caches rebuilt
LookupMisses(z) ==
    \E n \in {x \in DOMAIN z : IsSnapName(x) /\ x.fs = "tank"} :
        \/ ZfsGet(z, n, ZFSSNAP_LABEL) = ""
        \/ ZfsGet(z, n, ZFSSNAP_LABEL) = Label /\ ZfsGet(z, n, ZFSSNAP_REPL_STATUS) = ""

\* enforce_retention in replication role, not a reset, on a filesystem that
\* has a 'success' snapshot of the label
PinnedRetention ==
    /\ RetentionCalled /\ run.replication /\ ~run.reset
    /\ Successful(run.before, "tank", Label) # {}

\* C40: in replication role the pinned snapshot, the newest of the label
\* marked 'success', is taken for the same snapshot as its entry in the list
\* that is pruned, also when a lookup during the call has the caches
\* rebuilt: the pin keeps the snapshot from being destroyed and the call
\* returns without an exception.
C40_PinHoldsThroughRefresh ==
    (PinnedRetention /\ LookupMisses(run.before)) =>
        /\ src.exc = ""
        /\ Newest(Successful(run.before, "tank", Label)) \in DOMAIN src.zfs

\* the same of the calls during which no lookup misses
C40_PinHoldsWithoutRefresh ==
    (PinnedRetention /\ ~LookupMisses(run.before)) =>
        /\ src.exc = ""
        /\ Newest(Successful(run.before, "tank", Label)) \in DOMAIN src.zfs
====
